---- MODULE Spec2Model ----
(***************************************************************************)
(* State-machine model of sqlatte's stateful core:                          *)
(*   - SessionManager      (src/plugins/session_manager.py)                 *)
(*   - ConversationManager (src/core/conversation_manager.py)               *)
(*   - QueryHistoryManager (src/core/query_history.py) and the AnalyticsDB  *)
(*     table it is specified to write to (src/core/analytics_db.py)         *)
(* Each component has its own specification over its own variables; the     *)
(* variables of the other components stay at their constructed values.      *)
(***************************************************************************)
EXTENDS Integers, Sequences, FiniteSets, TLC

(***************************************************************************)
(* Bounds of the model and values shared by the components                  *)
(***************************************************************************)

\* The clock (datetime.now()) runs over 0..MaxTime, in abstract ticks.
MaxTime == 2

\* session_ttl_minutes of the SessionManager, in ticks of the model clock.
SessionTtl == 1

\* Python's None, and the "no exception" marker of a finished call.
None == "None"

NoExc == "none"

\* The record of a ConversationManager call that returns in the step just taken: its argument, the
\* returned session id (ret), count (n) or message list (ctx), and the exception
\* that ended it (exc).
ConvReturned(op, arg, ret, n, ctx, exc) ==
    [op |-> op, arg |-> arg, ret |-> ret, n |-> n, ctx |-> ctx, exc |-> exc]

\* The value of clast after a step in which no method returned.
ConvNoReturn == ConvReturned("none", None, None, 0, <<>>, NoExc)

\* The record of a QueryHistoryManager call that returns in the step just taken:
\* its arguments, the returned value (ret) and whether add_query executed its
\* append (inserted).
HistReturned(op, session_id, query_id, question, sql, ret, inserted) ==
    [op |-> op, session_id |-> session_id, query_id |-> query_id,
     question |-> question, sql |-> sql, ret |-> ret, inserted |-> inserted]

\* The record of a read of the QueryHistoryManager (get_history,
\* get_recent_tables, get_suggested_queries) that returns in the step just
\* taken: its arguments and the list returned.
HistRead(op, session_id, args, ret) ==
    [op |-> op, session_id |-> session_id, args |-> args, ret |-> ret]

\* The value of hlast after a step in which no method returned.
HistNoReturn == HistReturned("none", None, 0, None, <<>>, None, FALSE)

\* Restriction of a dict (a function) to the keys in S.
Restrict(f, S) == [k \in S |-> f[k]]

\* The elements of a sequence.
Range(s) == {s[i] : i \in 1..Len(s)}

\* list comprehension "[x for x in s if x in Keep]": s with the other elements dropped.
FilterSeq(s, Keep) == SelectSeq(s, LAMBDA x : x \in Keep)

(***************************************************************************)
(* SessionManager: authenticated sessions with sliding TTL                  *)
(***************************************************************************)

\* Values uuid.uuid4() can return, which are also the ids a caller may present.
SessionIds == {"s1", "s2"}

\* Request threads (one of them may be the background cleanup thread).
Threads == {"t1", "t2"}

Usernames == {"alice"}

DbConfigs == {"cfgA", "cfgB"}

VARIABLES
    now,        \* the wall clock read by datetime.now()
    \* SessionManager
    sessions,   \* SessionManager.sessions: session id -> AuthSession
    order,      \* insertion order of the keys of SessionManager.sessions
    issued,     \* the ids uuid4 has returned so far (uuid4 does not repeat)
    lock,       \* holder of SessionManager._lock, or None
    pc,         \* position of each thread inside a SessionManager method
    frame,      \* the locals of the method each thread is in
    last,       \* the most recent return of a SessionManager method
    lapsed,     \* ids whose session was evicted because it had expired
    \* ConversationManager
    cobj,       \* the ConversationSession objects alive: id -> object
    ckeys,      \* the keys of ConversationManager.sessions, in insertion order
    cissued,    \* the conversation ids uuid4 has returned so far
    nmsg,       \* number of messages callers have submitted so far
    cpc,        \* position of each thread inside a ConversationManager method
    cframe,     \* the locals of the method each thread is in
    clast,      \* the return of a ConversationManager method in the step just taken
    lost,       \* contents appended to a session object the dict no longer held
    \* QueryHistoryManager and AnalyticsDB
    qrec,       \* the QueryRecord objects alive: id -> object
    history,    \* QueryHistoryManager.history: session id -> list of record ids
    favorites,  \* the keys of QueryHistoryManager.favorites, in insertion order
    log,        \* the rows of AnalyticsDB's table "queries": id -> row
    nquery,     \* number of record ids uuid4 has returned so far
    seen,       \* the classes of SQL text callers have submitted so far
    hcfg,       \* the constructor arguments of the QueryHistoryManager
    hlast,      \* the return of a QueryHistoryManager method in the step just taken
    \* SessionManager's background cleanup task
    running,    \* SessionManager._running
    loop,       \* position of the cleanup thread in _cleanup_loop
    observed,   \* the cleanup thread has read _running as False
    earlier,    \* positions of the cleanup threads started before the current one
    \* Workers inside QueryHistoryManager.add_query
    hpc,        \* worker -> the line of add_query it is at
    hframe,     \* worker -> the arguments and the record of its add_query call
    landed      \* the (record id, session id) pairs appended and not popped since

\* The state of each component, and the whole state.
sstate == <<sessions, order, issued, lock, pc, frame, last, lapsed>>

cstate == <<cobj, ckeys, cissued, nmsg, cpc, cframe, clast, lost>>

hstate == <<qrec, history, favorites, log, nquery, seen, hcfg, hlast>>

lstate == <<running, loop, observed, earlier>>

wstate == <<hpc, hframe, landed>>

svars == <<now, sstate>>

cvars == <<now, cstate>>

hvars == <<now, hstate>>

vars == <<now, sstate, cstate, hstate, lstate, wstate>>

\* AuthSession.__init__: created_at and last_activity are both datetime.now().
AuthSession(username, db_config, ttl_minutes) ==
    [username |-> username, db_config |-> db_config, created_at |-> now,
     last_activity |-> now, ttl_minutes |-> ttl_minutes]

\* Mutant of is_expired: the boundary case "elapsed = ttl" counts as expired.
is_expired_inclusive(s) == now - s.last_activity >= s.ttl_minutes

\* AuthSession.is_expired, for session object s read at the current clock.
is_expired(s) == now - s.last_activity > s.ttl_minutes

\* Mutant of touch: the timestamp is read from a clock that runs one tick behind the
\* one the constructor read (utcnow() against now()).
touch_other_clock(s) == [s EXCEPT !.last_activity = now - 1]

\* AuthSession.touch on session object s.
touch(s) == [s EXCEPT !.last_activity = now]

\* Mutant of the lock: the method bodies run without mutual exclusion.
no_lock(t) == TRUE

\* "with self._lock": thread t may enter when no other thread holds the RLock.
LockAvailable(t) == lock \in {None, t}

\* The expiry predicate of the specification, for session object s at clock value at:
\* "now - last_activity > ttl".
ExpiredAt(s, at) == at - s.last_activity > s.ttl_minutes

\* The locals of a thread that is in no method. Besides the code's locals (id,
\* expired) a frame records what the method found on entry (pre, the dict; pre_now,
\* the clock; stale, whether the entry it acts on was expired), for the contracts.
IdleFrame == [op |-> "idle", id |-> None, expired |-> <<>>, n |-> 0,
              pre |-> <<>>, pre_now |-> 0, stale |-> FALSE]

\* The record of a finished call: the returned session id (ret), boolean (ok) or
\* count (n), the exception that ended it (exc), and the frame's stale flag.
Returned(op, t, id, ret, ok, n, exc, stale) ==
    [op |-> op, thread |-> t, id |-> id, ret |-> ret, ok |-> ok, n |-> n, exc |-> exc,
     stale |-> stale]

\* The locals of thread t entering method op on session id sid.
EnterFrame(op, sid) ==
    [op |-> op, id |-> sid, expired |-> <<>>, n |-> 0, pre |-> sessions, pre_now |-> now,
     stale |-> sid \in DOMAIN sessions /\ ExpiredAt(sessions[sid], now)]

\* Mutant of uuid4: ids are not unique over time, an id whose session is gone may
\* be handed out again.
uuid4_reused == SessionIds \ DOMAIN sessions

\* str(uuid.uuid4()): the values the next call can return (never one returned before).
uuid4 == SessionIds \ issued

SessionInit ==
    /\ sessions = <<>>
    /\ order = <<>>
    /\ issued = {}
    /\ now = 0
    /\ lock = None
    /\ pc = [t \in Threads |-> "idle"]
    /\ frame = [t \in Threads |-> IdleFrame]
    /\ last = Returned("init", None, None, None, FALSE, 0, NoExc, FALSE)
    /\ lapsed = {}

\* The clock advances (it is monotonic), also while a thread is inside a method.
Tick ==
    /\ now < MaxTime
    /\ now' = now + 1
    /\ clast' = ConvNoReturn
    /\ hlast' = HistNoReturn
    /\ UNCHANGED <<cobj, ckeys, cissued, nmsg, cpc, cframe, lost>>
    /\ UNCHANGED <<qrec, history, favorites, log, nquery, seen, hcfg>>
    /\ UNCHANGED <<sstate, lstate, wstate>>

\* SessionManager.create_session: a fresh uuid, then the insert under the lock.
create_session(t, username, db_config) ==
    /\ pc[t] = "idle"
    /\ LockAvailable(t)
    /\ \E sid \in uuid4 :
        /\ issued' = issued \cup {sid}
        /\ sessions' = [k \in DOMAIN sessions \cup {sid} |->
                          IF k = sid
                          THEN AuthSession(username, db_config, SessionTtl)
                          ELSE sessions[k]]
        /\ order' = Append(order, sid)
        /\ last' = Returned("create", t, sid, sid, TRUE, 0, NoExc, FALSE)
    /\ UNCHANGED <<now, lock, pc, frame, lapsed>>
    /\ UNCHANGED <<cstate, hstate, lstate, wstate>>

\* SessionManager.get_session, lines 111-117: take the lock, look the id up, return
\* None when absent, otherwise decide on is_expired() which branch runs next.
get_session_begin(t, sid) ==
    /\ pc[t] = "idle"
    /\ LockAvailable(t)
    /\ IF sid \notin DOMAIN sessions
       THEN /\ last' = Returned("get", t, sid, None, FALSE, 0, NoExc, FALSE)
            /\ UNCHANGED <<lock, pc, frame>>
       ELSE /\ lock' = t
            /\ pc' = [pc EXCEPT ![t] = IF is_expired(sessions[sid])
                                        THEN "get_del" ELSE "get_touch"]
            /\ frame' = [frame EXCEPT ![t] = EnterFrame("get", sid)]
            /\ UNCHANGED last
    /\ UNCHANGED <<sessions, order, issued, now, lapsed>>
    /\ UNCHANGED <<cstate, hstate, lstate, wstate>>

\* SessionManager.get_session, lines 118-120: evict the expired entry, return None.
\* "del self.sessions[session_id]" raises KeyError when the key is gone.
get_session_del(t) ==
    /\ pc[t] = "get_del"
    /\ LET sid == frame[t].id IN
       IF sid \in DOMAIN sessions
       THEN /\ sessions' = Restrict(sessions, DOMAIN sessions \ {sid})
            /\ order' = FilterSeq(order, DOMAIN sessions \ {sid})
            /\ lapsed' = lapsed \cup {sid}
            /\ last' = Returned("get", t, sid, None, FALSE, 0, NoExc, frame[t].stale)
       ELSE /\ last' = Returned("get", t, sid, None, FALSE, 0, "KeyError", frame[t].stale)
            /\ UNCHANGED <<sessions, order, lapsed>>
    /\ lock' = None
    /\ pc' = [pc EXCEPT ![t] = "idle"]
    /\ frame' = [frame EXCEPT ![t] = IdleFrame]
    /\ UNCHANGED <<issued, now>>
    /\ UNCHANGED <<cstate, hstate, lstate, wstate>>

\* SessionManager.get_session, lines 122-124: touch the session object and return
\* it. The object is touched and returned even if the dict no longer holds it.
get_session_touch(t) ==
    /\ pc[t] = "get_touch"
    /\ LET sid == frame[t].id IN
       /\ sessions' = IF sid \in DOMAIN sessions
                      THEN [sessions EXCEPT ![sid] = touch(sessions[sid])]
                      ELSE sessions
       /\ last' = Returned("get", t, sid, sid, sid \in DOMAIN sessions, 0, NoExc, frame[t].stale)
    /\ lock' = None
    /\ pc' = [pc EXCEPT ![t] = "idle"]
    /\ frame' = [frame EXCEPT ![t] = IdleFrame]
    /\ UNCHANGED <<order, issued, now, lapsed>>
    /\ UNCHANGED <<cstate, hstate, lstate, wstate>>

\* Mutant of destroy_session: an expired entry is treated as absent.
destroy_session_live_only(t, sid) ==
    /\ pc[t] = "idle"
    /\ LockAvailable(t)
    /\ IF sid \notin DOMAIN sessions \/ is_expired(sessions[sid])
       THEN /\ last' = Returned("destroy", t, sid, None, FALSE, 0, NoExc, FALSE)
            /\ UNCHANGED <<lock, pc, frame>>
       ELSE /\ lock' = t
            /\ pc' = [pc EXCEPT ![t] = "destroy_del"]
            /\ frame' = [frame EXCEPT ![t] = EnterFrame("destroy", sid)]
            /\ UNCHANGED last
    /\ UNCHANGED <<sessions, order, issued, now, lapsed>>
    /\ UNCHANGED <<cstate, hstate, lstate, wstate>>

\* SessionManager.destroy_session, lines 143-144 and 149: take the lock, test
\* membership, return False when absent.
destroy_session_begin(t, sid) ==
    /\ pc[t] = "idle"
    /\ LockAvailable(t)
    /\ IF sid \notin DOMAIN sessions
       THEN /\ last' = Returned("destroy", t, sid, None, FALSE, 0, NoExc, FALSE)
            /\ UNCHANGED <<lock, pc, frame>>
       ELSE /\ lock' = t
            /\ pc' = [pc EXCEPT ![t] = "destroy_del"]
            /\ frame' = [frame EXCEPT ![t] = EnterFrame("destroy", sid)]
            /\ UNCHANGED last
    /\ UNCHANGED <<sessions, order, issued, now, lapsed>>
    /\ UNCHANGED <<cstate, hstate, lstate, wstate>>

\* SessionManager.destroy_session, lines 145-148: read the username, delete the
\* entry, return True. Both subscripts raise KeyError when the key is gone.
destroy_session_del(t) ==
    /\ pc[t] = "destroy_del"
    /\ LET sid == frame[t].id IN
       IF sid \in DOMAIN sessions
       THEN /\ sessions' = Restrict(sessions, DOMAIN sessions \ {sid})
            /\ order' = FilterSeq(order, DOMAIN sessions \ {sid})
            /\ last' = Returned("destroy", t, sid, None, TRUE, 0, NoExc, frame[t].stale)
       ELSE /\ last' = Returned("destroy", t, sid, None, FALSE, 0, "KeyError", frame[t].stale)
            /\ UNCHANGED <<sessions, order>>
    /\ lock' = None
    /\ pc' = [pc EXCEPT ![t] = "idle"]
    /\ frame' = [frame EXCEPT ![t] = IdleFrame]
    /\ UNCHANGED <<issued, now, lapsed>>
    /\ UNCHANGED <<cstate, hstate, lstate, wstate>>

\* Mutant of cleanup_expired_sessions: the scan stops at the first expired entry.
cleanup_first_only(t) ==
    /\ pc[t] = "idle"
    /\ LockAvailable(t)
    /\ lock' = t
    /\ pc' = [pc EXCEPT ![t] = "cleanup_del"]
    /\ LET expired == FilterSeq(order, {k \in DOMAIN sessions : is_expired(sessions[k])}) IN
       LET first == IF expired = <<>> THEN <<>> ELSE <<Head(expired)>> IN
       frame' = [frame EXCEPT ![t] = [EnterFrame("cleanup", None) EXCEPT
                                          !.expired = first, !.n = Len(first)]]
    /\ UNCHANGED <<sessions, order, issued, now, last, lapsed>>
    /\ UNCHANGED <<cstate, hstate, lstate, wstate>>

\* SessionManager.cleanup_expired_sessions, lines 153-157: take the lock and
\* collect, in dict order, the ids whose session is expired.
cleanup_expired_sessions_begin(t) ==
    /\ pc[t] = "idle"
    /\ LockAvailable(t)
    /\ lock' = t
    /\ pc' = [pc EXCEPT ![t] = "cleanup_del"]
    /\ LET expired == FilterSeq(order, {k \in DOMAIN sessions : is_expired(sessions[k])}) IN
       frame' = [frame EXCEPT ![t] = [EnterFrame("cleanup", None) EXCEPT
                                          !.expired = expired, !.n = Len(expired)]]
    /\ UNCHANGED <<sessions, order, issued, now, last, lapsed>>
    /\ UNCHANGED <<cstate, hstate, lstate, wstate>>

\* SessionManager.cleanup_expired_sessions, lines 159-162: one iteration of the
\* delete loop. The subscript raises KeyError when the key is gone.
cleanup_expired_sessions_del(t) ==
    /\ pc[t] = "cleanup_del"
    /\ frame[t].expired # <<>>
    /\ LET sid == Head(frame[t].expired) IN
       IF sid \in DOMAIN sessions
       THEN /\ sessions' = Restrict(sessions, DOMAIN sessions \ {sid})
            /\ order' = FilterSeq(order, DOMAIN sessions \ {sid})
            /\ lapsed' = lapsed \cup {sid}
            /\ frame' = [frame EXCEPT ![t].expired = Tail(@), ![t].id = sid]
            /\ UNCHANGED <<lock, pc, last>>
       ELSE /\ last' = Returned("cleanup", t, sid, None, FALSE, 0, "KeyError", FALSE)
            /\ lock' = None
            /\ pc' = [pc EXCEPT ![t] = "idle"]
            /\ frame' = [frame EXCEPT ![t] = IdleFrame]
            /\ UNCHANGED <<sessions, order, lapsed>>
    /\ UNCHANGED <<issued, now>>
    /\ UNCHANGED <<cstate, hstate, lstate, wstate>>

\* SessionManager.cleanup_expired_sessions, line 164: return len(expired).
cleanup_expired_sessions_return(t) ==
    /\ pc[t] = "cleanup_del"
    /\ frame[t].expired = <<>>
    /\ last' = Returned("cleanup", t, None, None, TRUE, frame[t].n, NoExc, FALSE)
    /\ lock' = None
    /\ pc' = [pc EXCEPT ![t] = "idle"]
    /\ frame' = [frame EXCEPT ![t] = IdleFrame]
    /\ UNCHANGED <<sessions, order, issued, now, lapsed>>
    /\ UNCHANGED <<cstate, hstate, lstate, wstate>>

SessionNext ==
    \/ Tick
    \/ \E t \in Threads, u \in Usernames, c \in DbConfigs : create_session(t, u, c)
    \/ \E t \in Threads, sid \in SessionIds : get_session_begin(t, sid)
    \/ \E t \in Threads : get_session_del(t)
    \/ \E t \in Threads : get_session_touch(t)
    \/ \E t \in Threads, sid \in SessionIds : destroy_session_begin(t, sid)
    \/ \E t \in Threads : destroy_session_del(t)
    \/ \E t \in Threads : cleanup_expired_sessions_begin(t)
    \/ \E t \in Threads : cleanup_expired_sessions_del(t)
    \/ \E t \in Threads : cleanup_expired_sessions_return(t)

\* The name of the thread start_cleanup_task creates.
CleanupThread == "cleaner"

\* The request thread of LoopSpec.
MainThread == "t1"

\* SessionManager.__init__, lines 66-68: no cleanup thread, _running False.
LoopInit ==
    /\ running = FALSE
    /\ loop = "unstarted"
    /\ observed = FALSE
    /\ earlier = <<>>

\* The positions of a cleanup thread that has been started and has not left
\* its loop.
InLoop == {"while", "sleep", "if", "call"}

\* SessionManager.start_cleanup_task: nothing when _running is set, otherwise
\* the flag is set and a new thread started, which replaces the one
\* _cleanup_thread referred to; a thread that is replaced while it is in its
\* loop goes on running.
start_cleanup_task ==
    /\ IF running
       THEN UNCHANGED <<running, loop, observed, earlier>>
       ELSE /\ running' = TRUE
            /\ loop' = "while"
            /\ observed' = FALSE
            /\ earlier' = IF loop \in InLoop THEN Append(earlier, loop) ELSE earlier
    /\ UNCHANGED <<now, sstate, cstate, hstate, wstate>>

\* SessionManager.stop_cleanup_task: the flag is cleared; the join that follows
\* waits for the thread for 5 seconds at most and changes nothing.
stop_cleanup_task ==
    /\ running' = FALSE
    /\ UNCHANGED <<loop, observed, earlier>>
    /\ UNCHANGED <<now, sstate, cstate, hstate, wstate>>

\* Mutant of the loop's test: "while True".
cleanup_loop_while_true ==
    /\ loop = "while"
    /\ loop' = "sleep"
    /\ UNCHANGED <<running, observed, earlier>>
    /\ UNCHANGED <<now, sstate, cstate, hstate, wstate>>

\* _cleanup_loop, line 188: "while self._running".
cleanup_loop_while ==
    /\ loop = "while"
    /\ loop' = IF running THEN "sleep" ELSE "exited"
    /\ observed' = (observed \/ ~running)
    /\ UNCHANGED <<running, earlier>>
    /\ UNCHANGED <<now, sstate, cstate, hstate, wstate>>

\* _cleanup_loop, line 189: time.sleep returns.
cleanup_loop_sleep ==
    /\ loop = "sleep"
    /\ loop' = "if"
    /\ UNCHANGED <<running, observed, earlier>>
    /\ UNCHANGED <<now, sstate, cstate, hstate, wstate>>

\* _cleanup_loop, line 190: "if self._running".
cleanup_loop_if ==
    /\ loop = "if"
    /\ loop' = IF running THEN "call" ELSE "while"
    /\ observed' = (observed \/ ~running)
    /\ UNCHANGED <<running, earlier>>
    /\ UNCHANGED <<now, sstate, cstate, hstate, wstate>>

\* _cleanup_loop, line 191: the call of cleanup_expired_sessions by the cleanup
\* thread, which runs under the lock from its first line to its return.
cleanup_loop_sweep ==
    /\ loop = "call"
    /\ LockAvailable(CleanupThread)
    /\ LET gone == {k \in DOMAIN sessions : is_expired(sessions[k])}
       IN  /\ sessions' = Restrict(sessions, DOMAIN sessions \ gone)
           /\ order' = FilterSeq(order, DOMAIN sessions \ gone)
           /\ lapsed' = lapsed \cup gone
           /\ last' = Returned("cleanup", CleanupThread, None, None, TRUE,
                               Cardinality(gone), NoExc, FALSE)
    /\ loop' = "while"
    /\ UNCHANGED <<running, observed, earlier>>
    /\ UNCHANGED <<issued, lock, pc, frame, now>>
    /\ UNCHANGED <<cstate, hstate, wstate>>

\* A step of _cleanup_loop (lines 188-190) in the i-th of the threads started
\* earlier; a thread that leaves its loop is no longer listed.
earlier_loop_step(i) ==
    /\ i \in 1..Len(earlier)
    /\ earlier[i] \in {"while", "sleep", "if"}
    /\ earlier' =
          CASE earlier[i] = "while" ->
                   IF running THEN [earlier EXCEPT ![i] = "sleep"]
                   ELSE SubSeq(earlier, 1, i - 1) \o SubSeq(earlier, i + 1, Len(earlier))
            [] earlier[i] = "sleep" -> [earlier EXCEPT ![i] = "if"]
            [] earlier[i] = "if" ->
                   [earlier EXCEPT ![i] = IF running THEN "call" ELSE "while"]
    /\ UNCHANGED <<running, loop, observed>>
    /\ UNCHANGED <<now, sstate, cstate, hstate, wstate>>

\* The call of cleanup_expired_sessions (line 191) by the i-th of the threads
\* started earlier.
earlier_loop_sweep(i) ==
    /\ i \in 1..Len(earlier)
    /\ earlier[i] = "call"
    /\ LockAvailable(CleanupThread)
    /\ LET gone == {k \in DOMAIN sessions : is_expired(sessions[k])}
       IN  /\ sessions' = Restrict(sessions, DOMAIN sessions \ gone)
           /\ order' = FilterSeq(order, DOMAIN sessions \ gone)
           /\ lapsed' = lapsed \cup gone
           /\ last' = Returned("cleanup", "earlier", None, None, TRUE,
                               Cardinality(gone), NoExc, FALSE)
    /\ earlier' = [earlier EXCEPT ![i] = "while"]
    /\ UNCHANGED <<running, loop, observed>>
    /\ UNCHANGED <<issued, lock, pc, frame, now>>
    /\ UNCHANGED <<cstate, hstate, wstate>>

\* Bound on the cleanup threads of RestartSpec that were replaced while in
\* their loop.
MaxEarlier == 2

\* Any sequence of start_cleanup_task and stop_cleanup_task calls, the steps
\* of the cleanup threads, and sessions for them to sweep.
RestartNext ==
    \/ Tick
    \/ \E u \in Usernames, c \in DbConfigs : create_session(MainThread, u, c)
    \/ /\ running \/ loop \notin InLoop \/ Len(earlier) < MaxEarlier
       /\ start_cleanup_task
    \/ stop_cleanup_task
    \/ cleanup_loop_while
    \/ cleanup_loop_sleep
    \/ cleanup_loop_if
    \/ cleanup_loop_sweep
    \/ \E i \in 1..MaxEarlier : earlier_loop_step(i)
    \/ \E i \in 1..MaxEarlier : earlier_loop_sweep(i)

\* The requests of one thread, the start and the stop of the cleanup task (a
\* caller starts the task once: it does not start it again after it has
\* stopped it), and the steps of the cleanup thread.
LoopNext ==
    \/ Tick
    \/ \E u \in Usernames, c \in DbConfigs : create_session(MainThread, u, c)
    \/ \E sid \in SessionIds : get_session_begin(MainThread, sid)
    \/ get_session_del(MainThread)
    \/ get_session_touch(MainThread)
    \/ /\ running \/ loop = "unstarted"
       /\ start_cleanup_task
    \/ stop_cleanup_task
    \/ cleanup_loop_while
    \/ cleanup_loop_sleep
    \/ cleanup_loop_if
    \/ cleanup_loop_sweep

\* A thread inside get_session leaves it, the cleanup thread is scheduled and
\* its sleep ends, and a thread waiting for the lock gets it in the end.
LoopFairness ==
    /\ WF_vars(get_session_del(MainThread) \/ get_session_touch(MainThread))
    /\ WF_vars(cleanup_loop_while)
    /\ WF_vars(cleanup_loop_sleep)
    /\ WF_vars(cleanup_loop_if)
    /\ SF_vars(cleanup_loop_sweep)

(***************************************************************************)
(* Claims about SessionManager (specification Spec)                         *)
(***************************************************************************)

\* Thread t returns from method position p in this step.
ReturnsFrom(t, p) == pc[t] = p /\ pc'[t] = "idle"

\* A method that returns in its first step (the id was absent) returns in this step.
ReturnsAtOnce(op) ==
    /\ last' # last
    /\ last'.op = op
    /\ pc[last'.thread] = "idle"
    /\ pc'[last'.thread] = "idle"

\* The dict with key sid deleted.
Without(d, sid) == Restrict(d, DOMAIN d \ {sid})

\* C1: get(id) returns not-found and leaves no entry for id when no session has
\* that id or when now - last_activity > ttl held as get read the clock; otherwise
\* it sets last_activity to now and returns that session. Every other entry, and
\* every other field of the touched session, is left as it was.
C1_GetContract ==
    [][/\ ReturnsAtOnce("get") =>
            /\ last'.id \notin DOMAIN sessions
            /\ last'.ret = None
            /\ last'.exc = NoExc
            /\ sessions' = sessions
       /\ \A t \in Threads :
            (ReturnsFrom(t, "get_del") \/ ReturnsFrom(t, "get_touch")) =>
                LET sid == frame[t].id
                    s0  == frame[t].pre[sid]
                IN  /\ sid \in DOMAIN frame[t].pre
                    /\ last'.op = "get" /\ last'.id = sid /\ last'.exc = NoExc
                    /\ IF ExpiredAt(s0, frame[t].pre_now)
                       THEN /\ last'.ret = None
                            /\ sessions' = Without(frame[t].pre, sid)
                       ELSE /\ last'.ret = sid
                            /\ sessions' = [frame[t].pre EXCEPT
                                               ![sid] = [s0 EXCEPT !.last_activity = now']]
      ]_svars

\* C1 witness: a get has evicted an expired session, and the store still holds
\* another session.
C1_Witness ==
    /\ last.op = "get" /\ last.ret = None /\ last.stale
    /\ last.id \in issued /\ last.id \notin DOMAIN sessions
    /\ DOMAIN sessions # {}

\* C2: a session untouched for more than its TTL is reported absent by a get on
\* its id and is gone from the store when a sweep returns; a session evicted for
\* expiry never is in the store again and no later get returns it.
C2_ExpiredStaysAbsent ==
    [][/\ \A t \in Threads :
            /\ (pc[t] = "idle" /\ pc'[t] = "get_touch") =>
                    ~ExpiredAt(sessions[frame'[t].id], now)
            /\ ReturnsFrom(t, "get_del") =>
                    last'.ret = None /\ frame[t].id \notin DOMAIN sessions'
            /\ ReturnsFrom(t, "cleanup_del") =>
                    \A sid \in DOMAIN sessions' :
                        ~ExpiredAt(sessions'[sid], frame[t].pre_now)
            /\ ReturnsFrom(t, "get_touch") => last'.ret \notin lapsed'
       /\ lapsed' \cap DOMAIN sessions' = {}
       /\ lapsed \subseteq lapsed'
      ]_svars

\* C2 witness: after one session was evicted by a get and another by a sweep, a
\* get on an evicted id returned not-found.
C2_Witness ==
    /\ Cardinality(lapsed) = 2
    /\ last.op = "get" /\ last.id \in lapsed /\ last.ret = None /\ ~last.stale

\* C3: last_activity of a session never decreases, whatever operation runs.
C3_LastActivityMonotone ==
    [][\A sid \in DOMAIN sessions \cap DOMAIN sessions' :
            sessions'[sid].last_activity >= sessions[sid].last_activity]_svars

\* C3 witness: a get has returned a session whose last_activity it moved forward.
C3_Witness ==
    /\ last.op = "get" /\ last.ret # None
    /\ last.ret \in DOMAIN sessions
    /\ sessions[last.ret].last_activity > sessions[last.ret].created_at

\* C4: sweep removes exactly the sessions for which now - last_activity > ttl
\* held as it scanned, returns how many it removed, and leaves the others as
\* they were (presence, last_activity, db_config and the other fields).
C4_SweepExact ==
    [][\A t \in Threads :
            ReturnsFrom(t, "cleanup_del") =>
                LET pre  == frame[t].pre
                    gone == {sid \in DOMAIN pre : ExpiredAt(pre[sid], frame[t].pre_now)}
                IN  /\ last'.op = "cleanup" /\ last'.exc = NoExc
                    /\ last'.n = Cardinality(gone)
                    /\ sessions' = Restrict(pre, DOMAIN pre \ gone)
      ]_svars

\* C4 witness: a sweep has removed one session and kept another.
C4_Witness ==
    /\ last.op = "cleanup" /\ last.n = 1
    /\ Cardinality(DOMAIN sessions) = 1
    /\ Cardinality(lapsed) = 1

\* C5: destroy(id) removes the entry and returns true whenever an entry with that
\* id exists, expired or not; it returns false and changes nothing when there is
\* none; it never raises.
C5_DestroyContract ==
    [][/\ ReturnsAtOnce("destroy") =>
            /\ last'.id \notin DOMAIN sessions
            /\ last'.ok = FALSE
            /\ last'.exc = NoExc
            /\ sessions' = sessions
       /\ \A t \in Threads :
            ReturnsFrom(t, "destroy_del") =>
                /\ frame[t].id \in DOMAIN frame[t].pre
                /\ last'.op = "destroy" /\ last'.id = frame[t].id
                /\ last'.ok = TRUE
                /\ last'.exc = NoExc
                /\ sessions' = Without(frame[t].pre, frame[t].id)
       /\ last'.op = "destroy" => last'.exc = NoExc
      ]_svars

\* C5 witness: destroy has returned true for a session that was expired.
C5_Witness == last.op = "destroy" /\ last.ok /\ last.stale

\* C6: under any interleaving of create, get, destroy and sweep by several
\* threads each operation is atomic under the lock: at most one thread is inside
\* a method body, sweep only deletes a session that is expired at that moment, get
\* only touches and returns a session the store holds, and no call raises.
C6_AtomicUnderLock ==
    [][/\ Cardinality({t \in Threads : pc'[t] # "idle"}) <= 1
       /\ last'.exc = NoExc
       /\ \A t \in Threads :
            /\ (pc[t] = "cleanup_del" /\ DOMAIN sessions' # DOMAIN sessions) =>
                    \A sid \in DOMAIN sessions \ DOMAIN sessions' :
                        ExpiredAt(sessions[sid], now)
            /\ ReturnsFrom(t, "get_touch") =>
                    /\ frame[t].id \in DOMAIN sessions
                    /\ last'.ret \in DOMAIN sessions'
      ]_svars

\* C6 witness: a thread is about to touch a session that has meanwhile passed its
\* TTL, while the other thread is kept out by the lock.
C6_Witness ==
    \E t \in Threads, u \in Threads :
        /\ t # u
        /\ pc[t] = "get_touch"
        /\ ExpiredAt(sessions[frame[t].id], now)
        /\ ~LockAvailable(u)

(***************************************************************************)
(* ConversationManager: per-conversation message logs with a timeout. The   *)
(* class holds no lock: its methods are modelled statement by statement, as  *)
(* the event-loop thread and the pool workers interleave them.              *)
(***************************************************************************)

\* Values uuid.uuid4() can return for conversation sessions.
ConvIds == {"c1", "c2"}

\* The event-loop thread, which runs the request handlers, and a pool worker,
\* which runs _process_query_sync / _execute_query_for_session.
ConvThreads == {"loop", "w1"}

\* Number of messages callers submit in a run; message k has content k.
MaxMessages == 2

\* The role of message k: the handlers add the user's question, then the
\* assistant's answer, in turn.
RoleOf(k) == IF k % 2 = 1 THEN "user" ELSE "assistant"

\* session_timeout_minutes of the ConversationManager, in ticks of the model clock.
ConvTimeout == 1

\* ConversationManager.max_context_messages.
max_context_messages == 10

\* ConversationSession.__init__ (the metadata dict, never read, is left out).
ConversationSession(sid) ==
    [session_id |-> sid, messages |-> <<>>, created_at |-> now, last_activity |-> now]

\* ConversationMessage.__init__ (metadata and timestamp, which only to_dict reads,
\* are left out).
ConversationMessage(role, content) == [role |-> role, content |-> content]

\* Mutant of ConversationSession.is_expired: no session ever expires.
conv_never_expired(s, timeout_minutes) == FALSE

\* ConversationSession.is_expired(timeout_minutes) on session object s.
conv_is_expired(s, timeout_minutes) == now - s.last_activity > timeout_minutes

\* ConversationSession.add_message on session object s.
session_add_message(s, role, content) ==
    [s EXCEPT !.messages = Append(@, ConversationMessage(role, content)),
              !.last_activity = now]

\* Mutant of ConversationSession.clear: the session is replaced by a new one.
session_clear_reset(s) == ConversationSession(s.session_id)

\* ConversationSession.clear on session object s.
session_clear(s) == [s EXCEPT !.messages = <<>>, !.last_activity = now]

\* Python's s[-n:]: the last n elements of s for n >= 1; for n <= 0 the slice
\* starts at index -n counted from the front, so s[-0:] is the whole of s.
LastN(s, n) ==
    IF n > 0
    THEN IF Len(s) <= n THEN s ELSE SubSeq(s, Len(s) - n + 1, Len(s))
    ELSE SubSeq(s, 1 - n, Len(s))

\* ConversationMessage.to_llm_format.
to_llm_format(m) == [role |-> m.role, content |-> m.content]

\* ConversationSession.get_llm_context(max_messages) on session object s.
get_llm_context(s, max_messages) ==
    LET recent == LastN(s.messages, max_messages)
    IN  [i \in 1..Len(recent) |-> to_llm_format(recent[i])]

\* get_conversation_context, lines 180-192, on session object s, for a manager
\* whose max_context_messages is max_messages.
conversation_context(s, system_prompt, max_messages) ==
    (IF system_prompt # None /\ system_prompt # ""
     THEN <<[role |-> "system", content |-> system_prompt]>>
     ELSE <<>>) \o get_llm_context(s, max_messages)

\* The windows and the system prompts callers ask a context for.
MaxWindow == 2

SystemPrompts == {None, "sys"}

\* "sid in self.sessions".
InConvDict(sid) == sid \in Range(ckeys)

\* str(uuid.uuid4()) in ConversationManager.create_session.
conv_uuid4 == ConvIds \ cissued

\* The methods the handlers call on the event loop, and the one the workers call.
CanCall(t, op) == IF op = "context" THEN t # "loop" ELSE t = "loop"

\* The ids a caller can present: the ids it was given. The session of such an id
\* may be gone, which is also how an id unknown to the store is presented.
Presentable == cissued

ConvIdleFrame == [op |-> "idle", arg |-> None, session |-> None, role |-> None,
                  content |-> 0, size0 |-> 0, expired |-> <<>>, n |-> 0]

ConvFrame(op, sid, role, content) ==
    [ConvIdleFrame EXCEPT !.op = op, !.arg = sid, !.role = role, !.content = content]

\* The session objects still referenced: by the dict or by a local of a thread.
Referenced(keys, frames) ==
    Range(keys) \cup ({frames[t].session : t \in ConvThreads} \ {None})

\* The new state of the dict, the objects and the frames; unreferenced objects go.
ConvStore(keys2, obj2, frames2) ==
    /\ ckeys' = keys2
    /\ cframe' = frames2
    /\ cobj' = Restrict(obj2, Referenced(keys2, frames2))

\* Thread t leaves its method with the given result.
ConvReturn(t, keys2, obj2, ret, n, ctx, exc) ==
    /\ ConvStore(keys2, obj2, [cframe EXCEPT ![t] = ConvIdleFrame])
    /\ cpc' = [cpc EXCEPT ![t] = "idle"]
    /\ clast' = ConvReturned(cframe[t].op, cframe[t].arg, ret, n, ctx, exc)

\* The dict and the objects after "self.sessions[sid] = ConversationSession(sid)".
WithSession(obj, sid) ==
    [k \in DOMAIN obj \cup {sid} |-> IF k = sid THEN ConversationSession(sid) ELSE obj[k]]

\* get_or_create_session returns (sid, session) in the method with locals f:
\* to the caller, or to the rest of add_message / get_conversation_context.
GetOrCreateDone(t, f, sid, keys2, obj2) ==
    IF f.op = "get_or_create"
    THEN /\ ConvStore(keys2, obj2, [cframe EXCEPT ![t] = ConvIdleFrame])
         /\ cpc' = [cpc EXCEPT ![t] = "idle"]
         /\ clast' = ConvReturned(f.op, f.arg, sid, 0, <<>>, NoExc)
    ELSE /\ ConvStore(keys2, obj2, [cframe EXCEPT ![t] = [f EXCEPT !.session = sid]])
         /\ cpc' = [cpc EXCEPT ![t] = IF f.op = "add_message" THEN "append" ELSE "ctx"]
         /\ clast' = ConvNoReturn

ConvInit ==
    /\ cobj = <<>>
    /\ ckeys = <<>>
    /\ cissued = {}
    /\ nmsg = 0
    /\ cpc = [t \in ConvThreads |-> "idle"]
    /\ cframe = [t \in ConvThreads |-> ConvIdleFrame]
    /\ clast = ConvNoReturn
    /\ lost = {}

\* ConversationManager.create_session, called by the authenticated query handler.
conv_create_session(t) ==
    /\ cpc[t] = "idle"
    /\ CanCall(t, "create")
    /\ \E new \in conv_uuid4 :
        /\ cissued' = cissued \cup {new}
        /\ ConvStore(Append(ckeys, new), WithSession(cobj, new), cframe)
        /\ clast' = ConvReturned("create", None, new, 0, <<>>, NoExc)
    /\ UNCHANGED <<nmsg, cpc, lost>>
    /\ UNCHANGED <<now, sstate, hstate, lstate, wstate>>

\* Entry of get_or_create_session(sid), of add_message(sid, role, content) and of
\* get_conversation_context(sid), which both start with get_or_create_session.
\* Line 134 tests "session_id and session_id in self.sessions"; when it fails,
\* lines 147-150 create a session under a new id.
get_or_create_session_begin(t, op, sid) ==
    /\ cpc[t] = "idle"
    /\ CanCall(t, op)
    /\ sid = None => op = "get_or_create"
    /\ op = "add_message" => nmsg < MaxMessages
    /\ nmsg' = IF op = "add_message" THEN nmsg + 1 ELSE nmsg
    /\ LET f == IF op = "add_message"
                THEN ConvFrame(op, sid, RoleOf(nmsg + 1), nmsg + 1)
                ELSE ConvFrame(op, sid, None, 0) IN
       IF sid # None /\ InConvDict(sid)
       THEN /\ cpc' = [cpc EXCEPT ![t] = "goc_read"]
            /\ cframe' = [cframe EXCEPT ![t] = f]
            /\ clast' = ConvNoReturn
            /\ UNCHANGED <<cobj, ckeys, cissued>>
       ELSE \E new \in conv_uuid4 :
            /\ cissued' = cissued \cup {new}
            /\ GetOrCreateDone(t, f, new, Append(ckeys, new), WithSession(cobj, new))
    /\ UNCHANGED lost
    /\ UNCHANGED <<now, sstate, hstate, lstate, wstate>>

\* get_or_create_session, lines 135-138 and 144: "self.sessions[session_id]" raises
\* KeyError when the key is gone; a live session is returned as it is.
get_or_create_session_read(t) ==
    /\ cpc[t] = "goc_read"
    /\ LET sid == cframe[t].arg IN
       IF ~InConvDict(sid)
       THEN ConvReturn(t, ckeys, cobj, None, 0, <<>>, "KeyError")
       ELSE IF conv_is_expired(cobj[sid], ConvTimeout)
            THEN /\ cpc' = [cpc EXCEPT ![t] = "goc_del"]
                 /\ clast' = ConvNoReturn
                 /\ UNCHANGED <<cobj, ckeys, cframe>>
            ELSE GetOrCreateDone(t, cframe[t], sid, ckeys, cobj)
    /\ UNCHANGED <<cissued, nmsg, lost>>
    /\ UNCHANGED <<now, sstate, hstate, lstate, wstate>>

\* get_or_create_session, line 140: "del self.sessions[session_id]" of the expired
\* session raises KeyError when the key is gone.
get_or_create_session_del(t) ==
    /\ cpc[t] = "goc_del"
    /\ LET sid == cframe[t].arg IN
       IF ~InConvDict(sid)
       THEN ConvReturn(t, ckeys, cobj, None, 0, <<>>, "KeyError")
       ELSE /\ ConvStore(FilterSeq(ckeys, Range(ckeys) \ {sid}), cobj, cframe)
            /\ cpc' = [cpc EXCEPT ![t] = "goc_new"]
            /\ clast' = ConvNoReturn
    /\ UNCHANGED <<cissued, nmsg, lost>>
    /\ UNCHANGED <<now, sstate, hstate, lstate, wstate>>

\* get_or_create_session, lines 141-144: the replacement session under a new id.
get_or_create_session_new(t) ==
    /\ cpc[t] = "goc_new"
    /\ \E new \in conv_uuid4 :
        /\ cissued' = cissued \cup {new}
        /\ GetOrCreateDone(t, cframe[t], new, Append(ckeys, new), WithSession(cobj, new))
    /\ UNCHANGED <<nmsg, lost>>
    /\ UNCHANGED <<now, sstate, hstate, lstate, wstate>>

\* add_message, line 161: session.add_message on the object get_or_create_session
\* returned, whether or not the dict still holds it.
add_message_append(t) ==
    /\ cpc[t] = "append"
    /\ LET obj == cframe[t].session IN
       /\ ConvReturn(t, ckeys,
                     [cobj EXCEPT ![obj] = session_add_message(@, cframe[t].role,
                                                              cframe[t].content)],
                     obj, 0, <<>>, NoExc)
       /\ lost' = IF InConvDict(obj) THEN lost ELSE lost \cup {cframe[t].content}
    /\ UNCHANGED <<cissued, nmsg>>
    /\ UNCHANGED <<now, sstate, hstate, lstate, wstate>>

\* get_conversation_context, lines 180-192, with no system prompt (as every caller).
get_conversation_context_read(t) ==
    /\ cpc[t] = "ctx"
    /\ LET obj == cframe[t].session IN
       ConvReturn(t, ckeys, cobj, obj, 0,
                  get_llm_context(cobj[obj], max_context_messages), NoExc)
    /\ UNCHANGED <<cissued, nmsg, lost>>
    /\ UNCHANGED <<now, sstate, hstate, lstate, wstate>>

\* The first line of delete_session (208), clear_session (203) and
\* get_session_history (196): "if session_id in self.sessions".
conv_lookup_begin(t, op, sid) ==
    /\ cpc[t] = "idle"
    /\ CanCall(t, op)
    /\ op \in {"delete", "clear", "history"}
    /\ IF InConvDict(sid)
       THEN /\ cpc' = [cpc EXCEPT ![t] = op]
            /\ cframe' = [cframe EXCEPT ![t] = ConvFrame(op, sid, None, 0)]
            /\ clast' = ConvNoReturn
       ELSE /\ clast' = ConvReturned(op, sid, None, 0, <<>>, NoExc)
            /\ UNCHANGED <<cpc, cframe>>
    /\ UNCHANGED <<cobj, ckeys, cissued, nmsg, lost>>
    /\ UNCHANGED <<now, sstate, hstate, lstate, wstate>>

\* delete_session, line 209: "del self.sessions[session_id]".
delete_session_del(t) ==
    /\ cpc[t] = "delete"
    /\ LET sid == cframe[t].arg IN
       IF ~InConvDict(sid)
       THEN ConvReturn(t, ckeys, cobj, None, 0, <<>>, "KeyError")
       ELSE ConvReturn(t, FilterSeq(ckeys, Range(ckeys) \ {sid}), cobj, sid, 1, <<>>, NoExc)
    /\ UNCHANGED <<cissued, nmsg, lost>>
    /\ UNCHANGED <<now, sstate, hstate, lstate, wstate>>

\* clear_session, line 204: "self.sessions[session_id].clear()".
clear_session_clear(t) ==
    /\ cpc[t] = "clear"
    /\ LET sid == cframe[t].arg IN
       IF ~InConvDict(sid)
       THEN ConvReturn(t, ckeys, cobj, None, 0, <<>>, "KeyError")
       ELSE ConvReturn(t, ckeys, [cobj EXCEPT ![sid] = session_clear(@)], sid, 0, <<>>, NoExc)
    /\ UNCHANGED <<cissued, nmsg, lost>>
    /\ UNCHANGED <<now, sstate, hstate, lstate, wstate>>

\* get_session_history, lines 197-198: every message of the session.
get_session_history_read(t) ==
    /\ cpc[t] = "history"
    /\ LET sid == cframe[t].arg IN
       IF ~InConvDict(sid)
       THEN ConvReturn(t, ckeys, cobj, None, 0, <<>>, "KeyError")
       ELSE ConvReturn(t, ckeys, cobj, sid, 0, cobj[sid].messages, NoExc)
    /\ UNCHANGED <<cissued, nmsg, lost>>
    /\ UNCHANGED <<now, sstate, hstate, lstate, wstate>>

\* cleanup_expired_sessions, lines 213-214: the comprehension starts to iterate
\* over self.sessions.items(); the iterator remembers the size of the dict.
conv_cleanup_begin(t) ==
    /\ cpc[t] = "idle"
    /\ CanCall(t, "cleanup")
    /\ cpc' = [cpc EXCEPT ![t] = "cleanup_scan"]
    /\ cframe' = [cframe EXCEPT ![t] = [ConvFrame("cleanup", None, None, 0) EXCEPT
                                           !.size0 = Len(ckeys)]]
    /\ clast' = ConvNoReturn
    /\ UNCHANGED <<cobj, ckeys, cissued, nmsg, lost>>
    /\ UNCHANGED <<now, sstate, hstate, lstate, wstate>>

\* cleanup_expired_sessions, lines 213-216: the iteration. The iterator raises
\* RuntimeError when the dict has changed size since it was made.
conv_cleanup_scan(t) ==
    /\ cpc[t] = "cleanup_scan"
    /\ IF Len(ckeys) # cframe[t].size0
       THEN ConvReturn(t, ckeys, cobj, None, 0, <<>>, "RuntimeError")
       ELSE LET expired == FilterSeq(ckeys, {k \in Range(ckeys) :
                                               conv_is_expired(cobj[k], ConvTimeout)})
            IN  /\ cpc' = [cpc EXCEPT ![t] = "cleanup_del"]
                /\ cframe' = [cframe EXCEPT ![t].expired = expired, ![t].n = Len(expired)]
                /\ clast' = ConvNoReturn
                /\ UNCHANGED <<cobj, ckeys>>
    /\ UNCHANGED <<cissued, nmsg, lost>>
    /\ UNCHANGED <<now, sstate, hstate, lstate, wstate>>

\* cleanup_expired_sessions, lines 218-219: one "del self.sessions[sid]".
conv_cleanup_del(t) ==
    /\ cpc[t] = "cleanup_del"
    /\ cframe[t].expired # <<>>
    /\ LET sid == Head(cframe[t].expired) IN
       IF ~InConvDict(sid)
       THEN ConvReturn(t, ckeys, cobj, None, 0, <<>>, "KeyError")
       ELSE /\ ConvStore(FilterSeq(ckeys, Range(ckeys) \ {sid}), cobj,
                         [cframe EXCEPT ![t].expired = Tail(@)])
            /\ clast' = ConvNoReturn
            /\ UNCHANGED <<cpc>>
    /\ UNCHANGED <<cissued, nmsg, lost>>
    /\ UNCHANGED <<now, sstate, hstate, lstate, wstate>>

\* cleanup_expired_sessions, line 224: return len(expired).
conv_cleanup_return(t) ==
    /\ cpc[t] = "cleanup_del"
    /\ cframe[t].expired = <<>>
    /\ ConvReturn(t, ckeys, cobj, None, cframe[t].n, <<>>, NoExc)
    /\ UNCHANGED <<cissued, nmsg, lost>>
    /\ UNCHANGED <<now, sstate, hstate, lstate, wstate>>

ConvNext ==
    \/ Tick
    \/ \E t \in ConvThreads : conv_create_session(t)
    \/ \E t \in ConvThreads, op \in {"get_or_create", "add_message", "context"},
          sid \in Presentable \cup {None} :
            get_or_create_session_begin(t, op, sid)
    \/ \E t \in ConvThreads : get_or_create_session_read(t)
    \/ \E t \in ConvThreads : get_or_create_session_del(t)
    \/ \E t \in ConvThreads : get_or_create_session_new(t)
    \/ \E t \in ConvThreads : add_message_append(t)
    \/ \E t \in ConvThreads : get_conversation_context_read(t)
    \/ \E t \in ConvThreads, op \in {"delete", "clear", "history"}, sid \in Presentable :
            conv_lookup_begin(t, op, sid)
    \/ \E t \in ConvThreads : delete_session_del(t)
    \/ \E t \in ConvThreads : clear_session_clear(t)
    \/ \E t \in ConvThreads : get_session_history_read(t)
    \/ \E t \in ConvThreads : conv_cleanup_begin(t)
    \/ \E t \in ConvThreads : conv_cleanup_scan(t)
    \/ \E t \in ConvThreads : conv_cleanup_del(t)
    \/ \E t \in ConvThreads : conv_cleanup_return(t)

\* get_conversation_context(sid, system_prompt) on a live session of a manager
\* whose max_context_messages is max_messages, in one step. The record of the
\* return keeps system_prompt in ret and max_messages in n.
context_window(sid, system_prompt, max_messages) ==
    /\ InConvDict(sid)
    /\ ~conv_is_expired(cobj[sid], ConvTimeout)
    /\ clast' = ConvReturned("context_window", sid, system_prompt, max_messages,
                             conversation_context(cobj[sid], system_prompt, max_messages),
                             NoExc)
    /\ UNCHANGED <<cobj, ckeys, cissued, nmsg, cpc, cframe, lost>>
    /\ UNCHANGED <<now, sstate, hstate, lstate, wstate>>

\* No thread is inside a ConversationManager method.
ConvAllIdle == \A t \in ConvThreads : cpc[t] = "idle"

\* The same methods called one at a time: a call starts only when no other call
\* is in progress.
ConvSeqNext ==
    \/ Tick
    \/ ConvAllIdle /\ \E t \in ConvThreads : conv_create_session(t)
    \/ /\ ConvAllIdle
       /\ \E t \in ConvThreads, op \in {"get_or_create", "add_message", "context"},
             sid \in Presentable \cup {None} :
               get_or_create_session_begin(t, op, sid)
    \/ \E t \in ConvThreads : get_or_create_session_read(t)
    \/ \E t \in ConvThreads : get_or_create_session_del(t)
    \/ \E t \in ConvThreads : get_or_create_session_new(t)
    \/ \E t \in ConvThreads : add_message_append(t)
    \/ \E t \in ConvThreads : get_conversation_context_read(t)
    \/ /\ ConvAllIdle
       /\ \E t \in ConvThreads, op \in {"delete", "clear", "history"}, sid \in Presentable :
               conv_lookup_begin(t, op, sid)
    \/ \E t \in ConvThreads : delete_session_del(t)
    \/ \E t \in ConvThreads : clear_session_clear(t)
    \/ \E t \in ConvThreads : get_session_history_read(t)
    \/ ConvAllIdle /\ \E t \in ConvThreads : conv_cleanup_begin(t)
    \/ \E t \in ConvThreads : conv_cleanup_scan(t)
    \/ \E t \in ConvThreads : conv_cleanup_del(t)
    \/ \E t \in ConvThreads : conv_cleanup_return(t)
    \/ /\ ConvAllIdle
       /\ \E sid \in Presentable, system_prompt \in SystemPrompts,
             max_messages \in 0..MaxWindow :
               context_window(sid, system_prompt, max_messages)

(***************************************************************************)
(* Claims about ConversationManager (specification ConvSpec)                *)
(***************************************************************************)

\* C7: under any interleaving of get_or_create, append, context, delete and sweep
\* from the event-loop thread and the pool workers, every operation is one atomic
\* critical section: no call fails with a missing-key error (also not by deleting
\* a session a second time) or a changed-during-iteration error, and no appended
\* message is lost.
C7_ConvAtomic ==
    /\ clast.exc = NoExc
    /\ lost = {}

(***************************************************************************)
(* QueryHistoryManager: per-session history lists and global favorites      *)
(***************************************************************************)

\* Whitespace characters and the characters of the model's SQL texts.
Whitespace == {" "}

\* An SQL text is a sequence of characters.  The first text of each class is
\* already trimmed and lower-case; the others differ from it in case or in
\* surrounding whitespace only.
SqlClasses ==
    << {<<"a">>, <<" ", "A", " ">>},
       {<<"b">>},
       {<<"c">>},
       {<<"d">>},
       {<<"e">>},
       {<<"f">>} >>

\* Bound on the record ids uuid4 hands out, i.e. on the records ever created.
MaxQueries == 8

\* max_history_per_session of the manager under analysis.
MaxHistoryPerSession == 7

\* max_favorites of the manager under analysis.
MaxFavorites == 1

\* history_retention_hours, in ticks of the model clock.
HistoryRetention == 1

\* add_query compares against the hashes of the last 5 records of the list.
DedupWindow == 5

\* The inputs the model gives the remaining arguments.
Questions == {"q"}

NoTables == <<>>

NoTags == <<>>

\* A query id no call of uuid4 has returned.
UnknownQueryId == 0

\* str.lower on one character.
LowerChar(c) == IF c = "A" THEN "a" ELSE c

\* str.lower.
lower(s) == [i \in 1..Len(s) |-> LowerChar(s[i])]

RECURSIVE lstrip(_)
\* str.lstrip: drop the leading whitespace.
lstrip(s) == IF s # <<>> /\ Head(s) \in Whitespace THEN lstrip(Tail(s)) ELSE s

RECURSIVE rstrip(_)
\* str.rstrip: drop the trailing whitespace.
rstrip(s) ==
    IF s # <<>> /\ s[Len(s)] \in Whitespace
    THEN rstrip(SubSeq(s, 1, Len(s) - 1))
    ELSE s

\* str.strip.
strip(s) == rstrip(lstrip(s))

\* The byte of a character under str.encode().
CharCode(c) ==
    CASE c = " " -> 1
      [] c = "A" -> 2
      [] c = "a" -> 3
      [] c = "b" -> 4
      [] c = "c" -> 5
      [] c = "d" -> 6
      [] c = "e" -> 7
      [] c = "f" -> 8

RECURSIVE md5_12(_)
\* hashlib.md5(bytes).hexdigest()[:12]: a digest that tells apart the texts of
\* the model (no two of them collide), here the text read as a number in base 9.
md5_12(s) ==
    IF s = <<>> THEN 0
    ELSE md5_12(SubSeq(s, 1, Len(s) - 1)) * 9 + CharCode(s[Len(s)])

\* Mutant of get_hash: the digest is taken of the text as submitted.
get_hash_raw(r) == md5_12(r.sql)

\* QueryRecord.get_hash.
get_hash(r) == md5_12(lower(strip(r.sql)))

\* QueryRecord(...): the dataclass, created_at read from the clock.
QueryRecord(id, question, sql, tables, session_id, is_favorite, favorite_name, tags) ==
    [id |-> id, question |-> question, sql |-> sql, tables |-> tables,
     row_count |-> 0, execution_time_ms |-> 0, created_at |-> now,
     session_id |-> session_id, is_favorite |-> is_favorite,
     favorite_name |-> favorite_name, tags |-> tags]

\* The list of session_id in h, empty when h has no such key.
HistoryOf(h, session_id) == IF session_id \in DOMAIN h THEN h[session_id] ELSE <<>>

\* list.pop(i).
RemoveAt(l, i) == SubSeq(l, 1, i - 1) \o SubSeq(l, i + 1, Len(l))

\* The record ids some history list or the favorites dict refers to: the
\* QueryRecord objects that stay alive.
LiveRecords(h, f) == UNION {Range(h[s]) : s \in DOMAIN h} \cup Range(f)

\* Mutant of the eviction: the oldest record is popped, favorite or not.
PopOldest(l, recs) == Tail(l)

\* Mutant of the eviction: the scan finds nothing to pop.
PopNothing(l, recs) == l

\* Mutant of the eviction: the record just appended is never the one popped.
PopOldestStored(l, recs) ==
    LET cand == {i \in 1..(Len(l) - 1) : ~recs[l[i]].is_favorite}
    IN  IF cand = {} THEN l
        ELSE RemoveAt(l, CHOOSE i \in cand : \A j \in cand : i <= j)

\* "for i, old_record in enumerate(list): if not old_record.is_favorite:
\* pop(i); break", for list l of ids of the objects recs.
PopOldestNonFavorite(l, recs) ==
    LET cand == {i \in 1..Len(l) : ~recs[l[i]].is_favorite}
    IN  IF cand = {} THEN l
        ELSE RemoveAt(l, CHOOSE i \in cand : \A j \in cand : i <= j)

\* The class of an SQL text of the model.
ClassOf(sql) == CHOOSE k \in 1..Len(SqlClasses) : sql \in SqlClasses[k]

\* The texts a caller may submit next: the texts of the classes submitted
\* before and of the first class not submitted yet (the classes differ in name
\* only, so the model introduces them in one order).
NextTexts ==
    UNION {SqlClasses[k] : k \in {j \in 1..Len(SqlClasses) :
                                    \A i \in 1..(j - 1) : i \in seen}}

\* The (session id, sql) pairs callers pass to add_query next: session h1 submits
\* every text, session h2 the texts of the first class.
AddInputs ==
    {<<"h1", sql>> : sql \in NextTexts} \cup {<<"h2", sql>> : sql \in SqlClasses[1]}

\* The query ids callers pass to add_to_favorites next: an id of no record, and,
\* while nothing is a favorite, every id handed out so far.
MarkInputs == IF favorites = <<>> THEN 0..nquery ELSE {UnknownQueryId}

\* The new state of the three stores after a method body, with the objects
\* nothing refers to any more collected.
HistStore(recs, h, f) ==
    /\ history' = h
    /\ favorites' = f
    /\ qrec' = Restrict(recs, LiveRecords(h, f))

\* QueryHistoryManager.__init__ with the given constructor arguments.
HistInitWith(max_history_per_session, max_favorites, history_retention_hours) ==
    /\ qrec = <<>>
    /\ history = <<>>
    /\ favorites = <<>>
    /\ log = <<>>
    /\ nquery = 0
    /\ seen = {}
    /\ hcfg = [max_history_per_session |-> max_history_per_session,
               max_favorites |-> max_favorites,
               history_retention_hours |-> history_retention_hours]
    /\ hlast = HistNoReturn

\* The manager under analysis in HistSpec.
HistInit == HistInitWith(MaxHistoryPerSession, MaxFavorites, HistoryRetention)

\* self.history[session_id][-5:].
recent_window(l) == LastN(l, DedupWindow)

\* QueryHistoryManager.add_query.  uuid4 gives the k-th record that is stored
\* the id k; a record the duplicate check discards is referred to by nothing
\* once the call has returned, and its id stands for any id of no record.
add_query(session_id, question, sql, tables, tags) ==
    /\ LET id == nquery + 1
           hist0 == IF session_id \in DOMAIN history THEN history
                    ELSE history @@ (session_id :> <<>>)
           record == QueryRecord(id, question, sql, tables, session_id, FALSE, None, tags)
           recs == qrec @@ (id :> record)
           recent_hashes == {get_hash(qrec[i]) : i \in Range(recent_window(hist0[session_id]))}
           fresh == get_hash(record) \notin recent_hashes
           appended == Append(hist0[session_id], id)
           bounded == IF Len(appended) > hcfg.max_history_per_session
                      THEN PopOldestNonFavorite(appended, recs)
                      ELSE appended
           hist1 == IF fresh THEN [hist0 EXCEPT ![session_id] = bounded] ELSE hist0
       IN  /\ fresh => nquery < MaxQueries
           /\ HistStore(recs, hist1, favorites)
           /\ nquery' = IF fresh THEN id ELSE nquery
           /\ hlast' = HistReturned("add_query", session_id, id, question, sql, id, fresh)
    /\ seen' = seen \cup {ClassOf(sql)}
    /\ UNCHANGED <<log, hcfg>>
    /\ UNCHANGED <<now, sstate, cstate, lstate, wstate>>

\* The list and position at which a record id occurs in some history list
\* ("for session_queries in self.history.values(): for query in ..."); an id
\* occurs in at most one list, at one position.
FindInHistory(h, query_id) ==
    {<<s, i>> \in {<<s, i>> : s \in DOMAIN h, i \in 1..MaxQueries} :
        i <= Len(h[s]) /\ h[s][i] = query_id}

\* "self.favorites[id] = record": a new key goes last, an old key keeps its place.
FavPut(f, id) == IF id \in Range(f) THEN f ELSE Append(f, id)

\* "del self.favorites[id]".
FavDel(f, id) == SelectSeq(f, LAMBDA x : x # id)

\* min(self.favorites.keys(), key=created_at): the first key, in dict order,
\* whose record has the least created_at.
OldestFavorite(f, recs) ==
    LET least == {i \in 1..Len(f) : \A j \in 1..Len(f) :
                      recs[f[i]].created_at <= recs[f[j]].created_at}
    IN  f[CHOOSE i \in least : \A j \in least : i <= j]

\* Mutant of the truthiness test: every argument counts as given.
AlwaysTruthy(x) == TRUE

\* Python truthiness of an optional string argument: None and "" are false.
\* (An absent list or SQL text is the empty sequence, an absent query id is
\* UnknownQueryId: the code treats them as it treats None.)
Truthy(x) == x # None /\ x # ""

\* add_to_favorites, method 2: a new favorite from question and sql.
add_to_favorites_new(query_id, session_id, question, sql, tables, favorite_name, tags) ==
    LET id == nquery + 1
        record == QueryRecord(id, question, sql, tables,
                              IF Truthy(session_id) THEN session_id ELSE "global", TRUE,
                              IF Truthy(favorite_name) THEN favorite_name ELSE question,
                              tags)
        recs == qrec @@ (id :> record)
        favs == Append(favorites, id)
        kept == IF Len(favs) > hcfg.max_favorites THEN FavDel(favs, OldestFavorite(favs, recs))
                ELSE favs
    IN  /\ nquery < MaxQueries
        /\ HistStore(recs, history, kept)
        /\ nquery' = id
        /\ hlast' = HistReturned("add_to_favorites", session_id, query_id, question, sql, id, FALSE)

\* QueryHistoryManager.add_to_favorites.  The value returned is recorded as the
\* id of the returned record, and as UnknownQueryId when it is None.
add_to_favorites(query_id, session_id, question, sql, tables, favorite_name, tags) ==
    /\ LET found == FindInHistory(history, query_id)
       IN  IF found # {}
           THEN LET q == qrec[query_id]
                    marked == [q EXCEPT !.is_favorite = TRUE,
                                        !.favorite_name = IF Truthy(favorite_name)
                                                          THEN favorite_name ELSE q.question,
                                        !.tags = IF tags # <<>> THEN tags ELSE q.tags]
                IN  /\ HistStore([qrec EXCEPT ![query_id] = marked], history,
                                 FavPut(favorites, query_id))
                    /\ hlast' = HistReturned("add_to_favorites", session_id, query_id, question, sql,
                                             query_id, FALSE)
                    /\ UNCHANGED nquery
           ELSE IF Truthy(question) /\ sql # <<>>
                THEN add_to_favorites_new(query_id, session_id, question, sql, tables, favorite_name, tags)
                ELSE /\ hlast' = HistReturned("add_to_favorites", session_id, query_id, question, sql,
                                              UnknownQueryId, FALSE)
                     /\ UNCHANGED <<qrec, history, favorites, nquery>>
    /\ UNCHANGED <<log, seen, hcfg>>
    /\ UNCHANGED <<now, sstate, cstate, lstate, wstate>>

\* QueryHistoryManager.remove_from_favorites.
remove_from_favorites(query_id) ==
    /\ IF query_id \in Range(favorites)
       THEN /\ HistStore([qrec EXCEPT ![query_id].is_favorite = FALSE], history,
                         FavDel(favorites, query_id))
            /\ hlast' = HistReturned("remove_from_favorites", None, query_id, None, <<>>, TRUE, FALSE)
       ELSE IF FindInHistory(history, query_id) # {}
            THEN /\ HistStore([qrec EXCEPT ![query_id].is_favorite = FALSE,
                                           ![query_id].favorite_name = None],
                              history, favorites)
                 /\ hlast' = HistReturned("remove_from_favorites", None, query_id, None, <<>>,
                                          TRUE, FALSE)
            ELSE /\ hlast' = HistReturned("remove_from_favorites", None, query_id, None, <<>>,
                                          FALSE, FALSE)
                 /\ UNCHANGED <<qrec, history, favorites>>
    /\ UNCHANGED <<log, nquery, seen, hcfg>>
    /\ UNCHANGED <<now, sstate, cstate, lstate, wstate>>

\* QueryHistoryManager.delete_query.
delete_query(query_id, session_id) ==
    /\ LET favs == IF query_id \in Range(favorites) THEN FavDel(favorites, query_id)
                   ELSE favorites
           found == FindInHistory(history, query_id)
       IN  IF Truthy(session_id) /\ session_id \in DOMAIN history
           THEN /\ HistStore(qrec, [history EXCEPT ![session_id] =
                                       SelectSeq(@, LAMBDA x : x # query_id)], favs)
                /\ hlast' = HistReturned("delete_query", session_id, query_id, None, <<>>, TRUE, FALSE)
           ELSE IF found # {}
                THEN LET at == CHOOSE p \in found : TRUE
                     IN  /\ HistStore(qrec, [history EXCEPT ![at[1]] = RemoveAt(@, at[2])], favs)
                         /\ hlast' = HistReturned("delete_query", session_id, query_id, None, <<>>,
                                                  TRUE, FALSE)
                ELSE /\ HistStore(qrec, history, favs)
                     /\ hlast' = HistReturned("delete_query", session_id, query_id, None, <<>>,
                                              FALSE, FALSE)
    /\ UNCHANGED <<log, nquery, seen, hcfg>>
    /\ UNCHANGED <<now, sstate, cstate, lstate, wstate>>

\* Mutant of clear_history: the list is emptied, favorites included.
clear_history_all(session_id) ==
    /\ IF session_id \notin DOMAIN history
       THEN /\ hlast' = HistReturned("clear_history", session_id, UnknownQueryId, None, <<>>, 0, FALSE)
            /\ UNCHANGED <<qrec, history, favorites>>
       ELSE /\ HistStore(qrec, [history EXCEPT ![session_id] = <<>>], favorites)
            /\ hlast' = HistReturned("clear_history", session_id, UnknownQueryId, None, <<>>,
                                     Len(history[session_id]), FALSE)
    /\ UNCHANGED <<log, nquery, seen, hcfg>>
    /\ UNCHANGED <<now, sstate, cstate, lstate, wstate>>

\* QueryHistoryManager.clear_history.
clear_history(session_id) ==
    /\ IF session_id \notin DOMAIN history
       THEN /\ hlast' = HistReturned("clear_history", session_id, UnknownQueryId, None, <<>>, 0, FALSE)
            /\ UNCHANGED <<qrec, history, favorites>>
       ELSE LET kept == SelectSeq(history[session_id], LAMBDA x : qrec[x].is_favorite)
            IN  /\ HistStore(qrec, [history EXCEPT ![session_id] = kept], favorites)
                /\ hlast' = HistReturned("clear_history", session_id, UnknownQueryId, None, <<>>,
                                         Len(history[session_id]) - Len(kept), FALSE)
    /\ UNCHANGED <<log, nquery, seen, hcfg>>
    /\ UNCHANGED <<now, sstate, cstate, lstate, wstate>>

RECURSIVE SumLen(_, _)
\* The total length of the lists of h under the keys in S.
SumLen(h, S) ==
    IF S = {} THEN 0
    ELSE LET s == CHOOSE x \in S : TRUE IN Len(h[s]) + SumLen(h, S \ {s})

\* QueryHistoryManager.cleanup_old_history.
cleanup_old_history ==
    /\ LET cutoff == now - hcfg.history_retention_hours
           filtered == [s \in DOMAIN history |->
                           SelectSeq(history[s], LAMBDA x :
                               qrec[x].is_favorite \/ qrec[x].created_at > cutoff)]
           nonempty == {s \in DOMAIN history : filtered[s] # <<>>}
           removed == SumLen(history, DOMAIN history) - SumLen(filtered, DOMAIN history)
       IN  /\ HistStore(qrec, Restrict(filtered, nonempty), favorites)
           /\ hlast' = HistReturned("cleanup_old_history", None, UnknownQueryId, None, <<>>, removed, FALSE)
    /\ UNCHANGED <<log, nquery, seen, hcfg>>
    /\ UNCHANGED <<now, sstate, cstate, lstate, wstate>>

\* The calls of the query handlers (add_query) and of POST /favorites with a
\* query id (add_to_favorites), one at a time.
HistNext ==
    \/ \E in \in AddInputs, question \in Questions :
          add_query(in[1], question, in[2], NoTables, NoTags)
    \/ \E query_id \in MarkInputs :
          add_to_favorites(query_id, None, None, <<>>, NoTables, None, NoTags)

\* max_history_per_session of the small manager of HistEditSpec and HistCleanSpec.
SmallHistory == 2

\* Bound on the record ids uuid4 hands out to the small manager.
MaxEditQueries == 3

\* The manager under analysis in HistEditSpec and HistCleanSpec.
HistEditInit == HistInitWith(SmallHistory, MaxFavorites, HistoryRetention)

\* The trimmed, lower-case text of SQL class k.
CanonicalSql(k) == CHOOSE sql \in SqlClasses[k] : lower(strip(sql)) = sql

\* The (session id, sql) pairs callers pass to add_query of the small manager:
\* session h1 submits the classes in their order, session h2 the first class.
EditAddInputs ==
    {<<"h1", CanonicalSql(ClassOf(sql))>> : sql \in NextTexts} \cup {<<"h2", CanonicalSql(1)>>}

\* The calls of the handlers of /query, /favorites and /history, one at a time,
\* at one reading of the clock.
HistEditNext ==
    \/ \E in \in EditAddInputs, question \in Questions :
          /\ nquery < MaxEditQueries
          /\ add_query(in[1], question, in[2], NoTables, NoTags)
    \/ \E query_id \in 0..nquery, question \in {None} \cup Questions,
          sql \in {<<>>, CanonicalSql(1)} :
          /\ nquery < MaxEditQueries
          /\ add_to_favorites(query_id, None, question, sql, NoTables, None, NoTags)
    \/ \E query_id \in 0..nquery : remove_from_favorites(query_id)
    \/ \E query_id \in 0..nquery, session_id \in {None, "h1", "h2"} :
          delete_query(query_id, session_id)
    \/ \E session_id \in {"h1", "h2"} : clear_history(session_id)

\* A manager of any capacity from 0 to SmallHistory.
HistCapInit ==
    \E max_history_per_session \in 0..SmallHistory :
        HistInitWith(max_history_per_session, MaxFavorites, HistoryRetention)

\* The calls of the handlers of /query, /favorites and /history for one
\* session, one at a time.
HistCapNext ==
    \/ \E sql \in {CanonicalSql(ClassOf(x)) : x \in NextTexts} :
          /\ nquery < MaxEditQueries
          /\ add_query("h1", "q", sql, NoTables, NoTags)
    \/ \E query_id \in 1..nquery :
          add_to_favorites(query_id, None, None, <<>>, NoTables, None, NoTags)
    \/ /\ nquery < MaxEditQueries
       /\ add_to_favorites(UnknownQueryId, "h1", "q", CanonicalSql(1), NoTables, None, NoTags)
    \/ \E query_id \in 1..nquery : remove_from_favorites(query_id)
    \/ \E query_id \in 1..nquery : delete_query(query_id, "h1")
    \/ clear_history("h1")

\* The calls of the query handler, of POST /favorites with a query id (one
\* favorite at a time), of POST /history/clear and of the retention sweep, as
\* the clock advances.
HistCleanNext ==
    \/ Tick
    \/ \E in \in EditAddInputs, question \in Questions :
          /\ nquery < MaxEditQueries
          /\ add_query(in[1], question, in[2], NoTables, NoTags)
    \/ \E query_id \in MarkInputs :
          add_to_favorites(query_id, None, None, <<>>, NoTables, None, NoTags)
    \/ \E session_id \in {"h1", "h2"} : clear_history(session_id)
    \/ cleanup_old_history

\* The characters of a question of the model.
QuestionChars(question) == IF question = "q" THEN <<"q">> ELSE <<>>

\* Python's "needle in hay" on strings.
Contains(hay, needle) ==
    \E i \in 0..(Len(hay) - Len(needle)) : SubSeq(hay, i + 1, i + Len(needle)) = needle

\* Python's l[a:b] for 0 <= a <= b.
Slice(l, a, b) == SubSeq(l, a + 1, IF b < Len(l) THEN b ELSE Len(l))

\* datetime.isoformat: the text of a time.
isoformat(t) == <<"iso", t>>

\* QueryRecord.to_dict.
to_dict(r) == [r EXCEPT !.created_at = isoformat(@)]

\* One insertion of the stable sort below: x goes behind the ids whose record
\* is as recent as its own or more recent.
InsertByCreatedDesc(l, x, recs) ==
    LET k == Cardinality({i \in 1..Len(l) : recs[l[i]].created_at >= recs[x].created_at})
    IN  SubSeq(l, 1, k) \o <<x>> \o SubSeq(l, k + 1, Len(l))

RECURSIVE sort_created_desc(_, _)
\* sorted(l, key=created_at, reverse=True): stable, so records of equal
\* created_at keep the order they have in l.
sort_created_desc(l, recs) ==
    IF l = <<>> THEN <<>>
    ELSE InsertByCreatedDesc(sort_created_desc(SubSeq(l, 1, Len(l) - 1), recs), l[Len(l)], recs)

\* "any(t in record.tables for t in tables)".
AnyTableIn(tables, record) == Range(tables) \cap Range(record.tables) # {}

\* get_history, lines 156-169: the search filter, then the tables filter.
filter_history(l, recs, search, tables_filter) ==
    LET searched == IF search # <<>>
                    THEN SelectSeq(l, LAMBDA x :
                             \/ Contains(lower(QuestionChars(recs[x].question)), lower(search))
                             \/ Contains(lower(recs[x].sql), lower(search)))
                    ELSE l
    IN  IF tables_filter # <<>>
        THEN SelectSeq(searched, LAMBDA x : AnyTableIn(tables_filter, recs[x]))
        ELSE searched

\* Mutant of get_history: the page is cut before the filters are applied.
get_history_page_first(h, recs, session_id, limit, offset, search, tables_filter) ==
    IF session_id \notin DOMAIN h THEN <<>>
    ELSE LET queries == Slice(sort_created_desc(h[session_id], recs), offset, offset + limit)
             paginated == filter_history(queries, recs, search, tables_filter)
         IN  [i \in 1..Len(paginated) |-> to_dict(recs[paginated[i]])]

\* QueryHistoryManager.get_history on the lists h of the records recs.
get_history(h, recs, session_id, limit, offset, search, tables_filter) ==
    IF session_id \notin DOMAIN h THEN <<>>
    ELSE LET queries == sort_created_desc(
                            filter_history(h[session_id], recs, search, tables_filter), recs)
             paginated == Slice(queries, offset, offset + limit)
         IN  [i \in 1..Len(paginated) |-> to_dict(recs[paginated[i]])]

\* get_recent_tables scans the 10 most recent records of the session.
RecentScan == 10

RECURSIVE Flatten(_)
\* The elements of the lists of ls, in order.
Flatten(ls) == IF ls = <<>> THEN <<>> ELSE Head(ls) \o Flatten(Tail(ls))

RECURSIVE ScanTables(_, _, _)
\* get_recent_tables, lines 429-434: the loop over the tables still to look at,
\* with the names collected so far.
ScanTables(todo, tables, limit) ==
    IF todo = <<>> THEN tables
    ELSE IF Head(todo) \in Range(tables) THEN ScanTables(Tail(todo), tables, limit)
    ELSE LET more == Append(tables, Head(todo))
         IN  IF Len(more) >= limit THEN more ELSE ScanTables(Tail(todo), more, limit)

\* QueryHistoryManager.get_recent_tables.
get_recent_tables(h, recs, session_id, limit) ==
    IF session_id \notin DOMAIN h THEN <<>>
    ELSE LET recent_queries == Slice(sort_created_desc(h[session_id], recs), 0, RecentScan)
         IN  ScanTables(Flatten([i \in 1..Len(recent_queries) |-> recs[recent_queries[i]].tables]),
                        <<>>, limit)

\* reversed(l).
Reversed(l) == [i \in 1..Len(l) |-> l[Len(l) + 1 - i]]

\* Mutant of get_suggested_queries' history part: favorites are not skipped.
SuggestFromHistory_all(l, recs, current_tables) ==
    SelectSeq(Reversed(l), LAMBDA x : AnyTableIn(current_tables, recs[x]))

\* get_suggested_queries, lines 465-472: the ids suggested from a history list.
SuggestFromHistory(l, recs, current_tables) ==
    SelectSeq(Reversed(l), LAMBDA x : AnyTableIn(current_tables, recs[x]) /\ ~recs[x].is_favorite)

\* QueryHistoryManager.get_suggested_queries.
get_suggested_queries(h, f, recs, session_id, current_tables, limit) ==
    LET favs == SelectSeq(f, LAMBDA x : AnyTableIn(current_tables, recs[x]))
        hist == SuggestFromHistory(HistoryOf(h, session_id), recs, current_tables)
        suggestions ==
            [i \in 1..Len(favs) |-> [source |-> "favorite", query |-> to_dict(recs[favs[i]])]]
            \o [i \in 1..Len(hist) |-> [source |-> "history", query |-> to_dict(recs[hist[i]])]]
    IN  Slice(suggestions, 0, limit)

\* A read returns: only hlast changes.
HistReadReturn(op, session_id, args, ret) ==
    /\ hlast' = HistRead(op, session_id, args, ret)
    /\ UNCHANGED <<qrec, history, favorites, log, nquery, seen, hcfg>>
    /\ UNCHANGED <<now, sstate, cstate, lstate, wstate>>

\* Bound on the record ids uuid4 hands out in HistSuggestSpec.
MaxReadQueries == 3

\* Bound on the record ids uuid4 hands out in HistPageSpec.
MaxPageQueries == 2

\* Bound on the limits and offsets callers pass to the reads.
MaxLimit == 2

\* The tables the SQL texts of a class use, which the caller passes with them.
TablesOf(sql) == IF ClassOf(sql) = 1 THEN <<"t2", "t1">> ELSE <<"t1">>

\* The (search, tables_filter) pairs, the offsets and the current tables
\* callers pass.
HistoryFilters == {<<<<>>, <<>>>>, <<<<"A">>, <<>>>>, <<<<>>, <<"t2">>>>}

Offsets == {0, 1}

CurrentTables == {<<"t2">>, <<"t1">>}

\* The calls of the query handler and the reads of GET /history, as the clock
\* advances.
HistPageNext ==
    \/ Tick
    \/ \E in \in AddInputs, question \in Questions :
          /\ nquery < MaxPageQueries
          /\ add_query(in[1], question, in[2], TablesOf(in[2]), NoTags)
    \/ \E session_id \in {"h1", "h2"}, limit \in 0..MaxLimit, offset \in Offsets,
          by \in HistoryFilters :
          HistReadReturn("get_history", session_id,
                         [limit |-> limit, offset |-> offset, search |-> by[1],
                          tables_filter |-> by[2]],
                         get_history(history, qrec, session_id, limit, offset, by[1], by[2]))

\* The calls of the query handler and of POST /favorites with a query id (one
\* favorite at a time), and the reads of the suggestion helpers, as the clock
\* advances.
HistSuggestNext ==
    \/ Tick
    \/ \E in \in EditAddInputs, question \in Questions :
          /\ nquery < MaxReadQueries
          /\ add_query(in[1], question, in[2], TablesOf(in[2]), NoTags)
    \/ \E query_id \in MarkInputs :
          add_to_favorites(query_id, None, None, <<>>, NoTables, None, NoTags)
    \/ \E session_id \in {"h1", "h2"}, limit \in 0..MaxLimit :
          HistReadReturn("get_recent_tables", session_id, [limit |-> limit],
                         get_recent_tables(history, qrec, session_id, limit))
    \/ \E session_id \in {"h1", "h2"}, current_tables \in CurrentTables, limit \in 0..MaxLimit :
          HistReadReturn("get_suggested_queries", session_id,
                         [current_tables |-> current_tables, limit |-> limit],
                         get_suggested_queries(history, favorites, qrec, session_id,
                                               current_tables, limit))

(***************************************************************************)
(* QueryHistoryManager.add_query called by several workers at once.  The     *)
(* manager has no lock: a worker can be suspended between any two            *)
(* statements of add_query, and each statement looks self.history[...] up    *)
(* again.                                                                    *)
(***************************************************************************)

\* The workers that call add_query.
Workers == {"w1", "w2"}

\* The frame of a worker that is in no call.
IdleCall == [session_id |-> None, question |-> None, sql |-> <<>>, id |-> UnknownQueryId,
             created_at |-> 0]

\* No worker is in a call.
WorkerInit ==
    /\ hpc = [w \in Workers |-> "idle"]
    /\ hframe = [w \in Workers |-> IdleCall]
    /\ landed = {}

\* Bound on the add_query calls of WorkerSpec.
MaxWorkerQueries == 3

\* The SQL a worker submits: the two workers submit different SQL.
WorkerSql(w) ==
    IF w = "w1" THEN {CanonicalSql(1), CanonicalSql(3)} ELSE {CanonicalSql(2)}

\* The record of the call of worker w.
WorkerRecord(w) ==
    [QueryRecord(hframe[w].id, hframe[w].question, hframe[w].sql, NoTables,
                 hframe[w].session_id, FALSE, None, NoTags)
        EXCEPT !.created_at = hframe[w].created_at]

\* add_query returns to worker w.
WorkerReturn(w, inserted) ==
    /\ hlast' = HistReturned("add_query", hframe[w].session_id, hframe[w].id,
                             hframe[w].question, hframe[w].sql, hframe[w].id, inserted)
    /\ hpc' = [hpc EXCEPT ![w] = "idle"]
    /\ hframe' = [hframe EXCEPT ![w] = IdleCall]

\* add_query, line 103: "if session_id not in self.history".
add_query_enter(w, session_id, question, sql) ==
    /\ hpc[w] = "idle"
    /\ nquery < MaxWorkerQueries
    /\ nquery' = nquery + 1
    /\ hframe' = [hframe EXCEPT ![w] = [session_id |-> session_id, question |-> question,
                                        sql |-> sql, id |-> nquery + 1, created_at |-> 0]]
    /\ hpc' = [hpc EXCEPT ![w] = IF session_id \in DOMAIN history THEN "record" ELSE "init"]
    /\ hlast' = HistNoReturn
    /\ UNCHANGED <<qrec, history, favorites, log, seen, hcfg, landed>>
    /\ UNCHANGED <<now, sstate, cstate, lstate>>

\* add_query, line 104: "self.history[session_id] = []".
add_query_init(w) ==
    /\ hpc[w] = "init"
    /\ LET session_id == hframe[w].session_id
       IN  HistStore(qrec,
                     [k \in DOMAIN history \cup {session_id} |->
                         IF k = session_id THEN <<>> ELSE history[k]],
                     favorites)
    /\ hpc' = [hpc EXCEPT ![w] = "record"]
    /\ hlast' = HistNoReturn
    /\ UNCHANGED <<log, nquery, seen, hcfg, hframe, landed>>
    /\ UNCHANGED <<now, sstate, cstate, lstate>>

\* add_query, lines 107-121: the record is built and its hash looked for in the
\* last five records of the list; a duplicate is returned without an append.
add_query_record(w) ==
    /\ hpc[w] = "record"
    /\ LET session_id == hframe[w].session_id
           record == [WorkerRecord(w) EXCEPT !.created_at = now]
           recent_hashes == {get_hash(qrec[i]) : i \in Range(recent_window(history[session_id]))}
       IN  IF get_hash(record) \notin recent_hashes
           THEN /\ hframe' = [hframe EXCEPT ![w].created_at = now]
                /\ hpc' = [hpc EXCEPT ![w] = "append"]
                /\ hlast' = HistNoReturn
           ELSE WorkerReturn(w, FALSE)
    /\ UNCHANGED <<qrec, history, favorites, log, nquery, seen, hcfg, landed>>
    /\ UNCHANGED <<now, sstate, cstate, lstate>>

\* add_query, line 122: "self.history[session_id].append(record)".
add_query_append(w) ==
    /\ hpc[w] = "append"
    /\ LET session_id == hframe[w].session_id
           id == hframe[w].id
       IN  /\ HistStore(qrec @@ (id :> WorkerRecord(w)),
                        [history EXCEPT ![session_id] = Append(@, id)], favorites)
           /\ landed' = landed \cup {<<id, session_id>>}
    /\ hpc' = [hpc EXCEPT ![w] = "limit"]
    /\ hlast' = HistNoReturn
    /\ UNCHANGED <<log, nquery, seen, hcfg, hframe>>
    /\ UNCHANGED <<now, sstate, cstate, lstate>>

\* add_query, line 125: "if len(self.history[session_id]) > max"; the call
\* returns when the list is not too long.
add_query_limit(w) ==
    /\ hpc[w] = "limit"
    /\ IF Len(history[hframe[w].session_id]) > hcfg.max_history_per_session
       THEN /\ hpc' = [hpc EXCEPT ![w] = "pop"]
            /\ hlast' = HistNoReturn
            /\ UNCHANGED hframe
       ELSE WorkerReturn(w, TRUE)
    /\ UNCHANGED <<qrec, history, favorites, log, nquery, seen, hcfg, landed>>
    /\ UNCHANGED <<now, sstate, cstate, lstate>>

\* add_query, lines 127-132: the oldest record that is no favorite is popped,
\* and the call returns.
add_query_pop(w) ==
    /\ hpc[w] = "pop"
    /\ LET session_id == hframe[w].session_id
           kept == PopOldestNonFavorite(history[session_id], qrec)
       IN  /\ HistStore(qrec, [history EXCEPT ![session_id] = kept], favorites)
           /\ landed' = {e \in landed : e[2] # session_id \/ e[1] \in Range(kept)}
    /\ WorkerReturn(w, TRUE)
    /\ UNCHANGED <<log, nquery, seen, hcfg>>
    /\ UNCHANGED <<now, sstate, cstate, lstate>>

\* The sessions the workers add to.
WorkerSessions == {"h1", "h2"}

\* The steps of the workers.
WorkerNext ==
    \/ \E w \in Workers : \E session_id \in WorkerSessions, sql \in WorkerSql(w) :
          add_query_enter(w, session_id, "q", sql)
    \/ \E w \in Workers : add_query_init(w)
    \/ \E w \in Workers : add_query_record(w)
    \/ \E w \in Workers : add_query_append(w)
    \/ \E w \in Workers : add_query_limit(w)
    \/ \E w \in Workers : add_query_pop(w)

(***************************************************************************)
(* AnalyticsDB: the table "queries" of the SQLite file (variable log, id ->  *)
(* row) and the aggregates read from it.  A tick of the clock is an hour;    *)
(* a float that is computed is modelled by the exact number of its           *)
(* hundredths.                                                               *)
(***************************************************************************)

\* dict.get(key, default).
Get(d, key, default) == IF key \in DOMAIN d THEN d[key] ELSE default

\* json.dumps and json.loads of a list.
json_dumps(x) == <<"json", x>>

json_loads(text) == text[2]

\* sqlite3 stores the Python bool True as 1 and False as 0.
sql_bool(b) == IF b THEN 1 ELSE 0

\* The columns of table "queries".
Columns ==
    {"id", "session_id", "user_id", "question", "sql", "tables", "row_count",
     "execution_time_ms", "success", "error_message", "widget_type",
     "is_favorite", "favorite_name", "tags", "created_at"}

\* The keys save_query reads with record_dict[...], and the columns declared
\* NOT NULL.
RequiredKeys == {"id", "session_id", "question", "sql"}

NotNullColumns == {"session_id", "question", "sql"}

\* The tuple of values save_query binds to its INSERT statement.
QueryRow(record_dict) ==
    [id |-> record_dict.id,
     session_id |-> record_dict.session_id,
     user_id |-> Get(record_dict, "user_id", None),
     question |-> record_dict.question,
     sql |-> record_dict.sql,
     tables |-> json_dumps(Get(record_dict, "tables", <<>>)),
     row_count |-> Get(record_dict, "row_count", 0),
     execution_time_ms |-> Get(record_dict, "execution_time_ms", 0),
     success |-> sql_bool(Get(record_dict, "success", TRUE)),
     error_message |-> Get(record_dict, "error_message", None),
     widget_type |-> Get(record_dict, "widget_type", "default"),
     is_favorite |-> sql_bool(Get(record_dict, "is_favorite", FALSE)),
     favorite_name |-> Get(record_dict, "favorite_name", None),
     tags |-> json_dumps(Get(record_dict, "tags", <<>>)),
     created_at |-> Get(record_dict, "created_at", isoformat(now))]

\* The statement of save_query raises: a key read with [...] is missing
\* (KeyError), the id is the primary key of a stored row, or a NOT NULL column
\* would hold NULL (sqlite3.IntegrityError).
InsertRaises(rows, record_dict) ==
    \/ ~(RequiredKeys \subseteq DOMAIN record_dict)
    \/ record_dict.id \in DOMAIN rows
    \/ \E c \in NotNullColumns : record_dict[c] = None

\* Mutant of save_query: the row of a failed insert is left in the table.
save_query_no_rollback(rows, record_dict) ==
    IF ~(RequiredKeys \subseteq DOMAIN record_dict)
    THEN [rows |-> rows, ok |-> FALSE]
    ELSE [rows |-> [i \in DOMAIN rows \cup {record_dict.id} |->
                        IF i = record_dict.id THEN QueryRow(record_dict) ELSE rows[i]],
          ok |-> ~InsertRaises(rows, record_dict)]

\* AnalyticsDB.save_query on the rows of table "queries": the rows after the
\* call and the value returned.  get_connection commits when the statement has
\* run and rolls back when it raised; save_query turns the exception into
\* False.  No method of QueryHistoryManager calls it.
save_query(rows, record_dict) ==
    IF InsertRaises(rows, record_dict)
    THEN [rows |-> rows, ok |-> FALSE]
    ELSE [rows |-> rows @@ (record_dict.id :> QueryRow(record_dict)), ok |-> TRUE]

\* A call of AnalyticsDB.save_query.
analytics_save_query(record_dict) ==
    /\ LET r == save_query(log, record_dict)
       IN  /\ log' = r.rows
           /\ hlast' = HistRead("save_query", None, record_dict, r.ok)
    /\ UNCHANGED <<qrec, history, favorites, nquery, seen, hcfg>>
    /\ UNCHANGED <<now, sstate, cstate, lstate, wstate>>

\* round(num / den, 2) in hundredths, for num >= 0 and den > 0 (round rounds a
\* tie to the even neighbour).
round2(num, den) ==
    LET q == (100 * num) \div den
        r == (100 * num) % den
    IN  IF 2 * r < den THEN q
        ELSE IF 2 * r > den THEN q + 1
        ELSE IF q % 2 = 0 THEN q ELSE q + 1

\* SUM(execution_time_ms) over the rows ids.
RECURSIVE SumTimes(_, _)
SumTimes(rows, ids) ==
    IF ids = {} THEN 0
    ELSE LET i == CHOOSE i \in ids : TRUE
         IN  rows[i].execution_time_ms + SumTimes(rows, ids \ {i})

\* "created_at >= ?" on two isoformat texts of one format.
IsoGE(a, b) == a[2] >= b[2]

\* Mutant of get_analytics_summary: the counts of successful and of failed
\* rows are taken over the whole table.
get_analytics_summary_all(rows, hours, widget_type) ==
    LET cutoff_iso == isoformat(now - hours)
        inwin == {i \in DOMAIN rows :
                    /\ IsoGE(rows[i].created_at, cutoff_iso)
                    /\ widget_type # None => rows[i].widget_type = widget_type}
        total == Cardinality(inwin)
        successful == Cardinality({i \in DOMAIN rows : rows[i].success = 1})
        failed == Cardinality({i \in DOMAIN rows : rows[i].success = 0})
    IN  [period_hours |-> hours,
         total_queries |-> total,
         successful_queries |-> successful,
         failed_queries |-> failed,
         success_rate |-> IF total > 0 THEN round2(successful * 100, total) ELSE 0,
         avg_execution_time_ms |-> 0,
         unique_sessions |-> Cardinality({rows[i].session_id : i \in inwin}),
         unique_users |-> Cardinality({rows[i].user_id : i \in inwin} \ {None})]

\* AnalyticsDB.get_analytics_summary, without its fields widget_breakdown and
\* top_tables; success_rate and avg_execution_time_ms in hundredths.
get_analytics_summary(rows, hours, widget_type) ==
    LET cutoff_iso == isoformat(now - hours)
        inwin == {i \in DOMAIN rows :
                    /\ IsoGE(rows[i].created_at, cutoff_iso)
                    /\ widget_type # None => rows[i].widget_type = widget_type}
        total == Cardinality(inwin)
        good == {i \in inwin : rows[i].success = 1}
        successful == Cardinality(good)
        failed == Cardinality({i \in inwin : rows[i].success = 0})
    IN  [period_hours |-> hours,
         total_queries |-> total,
         successful_queries |-> successful,
         failed_queries |-> failed,
         success_rate |-> IF total > 0 THEN round2(successful * 100, total) ELSE 0,
         avg_execution_time_ms |->
             IF good = {} THEN 0 ELSE round2(SumTimes(rows, good), successful),
         unique_sessions |-> Cardinality({rows[i].session_id : i \in inwin}),
         unique_users |-> Cardinality({rows[i].user_id : i \in inwin} \ {None})]

\* Bound on the ids of the rows LogSpec inserts.
MaxLogRows == 2

\* Bound on the window, in hours, of the summaries LogSpec reads.
MaxHours == 2

\* The widget type and the execution time of the record a caller logs under
\* id k.
WidgetOf(k) == IF k % 2 = 0 THEN "auth" ELSE "default"

ExecTimeOf(k) == 10 * k

\* The record dicts callers pass to save_query: a record made now, with its
\* keys "success" and "created_at" or without them, a record without a
\* question, and a dict without the key "sql".
LogInputs ==
    LET base == {[id |-> k, session_id |-> "h1", question |-> q, sql |-> <<"A">>,
                  execution_time_ms |-> ExecTimeOf(k), widget_type |-> WidgetOf(k)] :
                    k \in 1..MaxLogRows, q \in {"q", None}}
    IN  base
        \cup {d @@ [success |-> b, created_at |-> isoformat(now)] :
                 d \in {x \in base : x.question = "q"}, b \in BOOLEAN}
        \cup {[id |-> k, session_id |-> "h1", question |-> "q"] : k \in 1..MaxLogRows}

\* The table of a database file written by an earlier run: ten rows of the
\* hour 0, eight of them successful.
EarlierRun ==
    [k \in 101..110 |->
        QueryRow([id |-> k, session_id |-> "h2", question |-> "q", sql |-> <<"A">>,
                  execution_time_ms |-> 20, success |-> (k <= 108),
                  created_at |-> isoformat(0)])]

\* AnalyticsDB.__init__ keeps the rows of the file it opens (CREATE TABLE IF NOT
\* EXISTS): the file is new or was written by an earlier run.
HistLogInit ==
    /\ qrec = <<>>
    /\ history = <<>>
    /\ favorites = <<>>
    /\ log \in {<<>>, EarlierRun}
    /\ nquery = 0
    /\ seen = {}
    /\ hcfg = [max_history_per_session |-> MaxHistoryPerSession,
               max_favorites |-> MaxFavorites,
               history_retention_hours |-> HistoryRetention]
    /\ hlast = HistNoReturn

\* Writes to the table and summaries of it.
LogNext ==
    \/ Tick
    \/ \E record_dict \in LogInputs : analytics_save_query(record_dict)
    \/ \E hours \in 1..MaxHours, widget_type \in {None, "auth"} :
          HistReadReturn("get_analytics_summary", None,
                         [hours |-> hours, widget_type |-> widget_type],
                         get_analytics_summary(log, hours, widget_type))

(***************************************************************************)
(* percentile, the helper of the endpoint get_performance_metrics, applied   *)
(* to a list of execution times.  The floats k and the result are modelled   *)
(* by the exact number of their hundredths.                                  *)
(***************************************************************************)

\* int(x) of the float x100 / 100: truncation towards zero.
int(x100) == IF x100 >= 0 THEN x100 \div 100 ELSE -((-x100) \div 100)

\* The outcome of a percentile call: the exception raised or the value
\* returned, and the two indices it computed.
PercentileResult(exc, value, f, c) == [exc |-> exc, value |-> value, f |-> f, c |-> c]

\* data[i] is an element of the Python list data (a negative index counts from
\* the end).
InList(data, i) == i \in (-Len(data))..(Len(data) - 1)

Item(data, i) == IF i >= 0 THEN data[i + 1] ELSE data[Len(data) + i + 1]

\* Mutant of percentile: c = f + 1 without the test of the list's end.
percentile_unguarded(data, p) ==
    IF data = <<>> THEN PercentileResult(NoExc, 0, 0, 0)
    ELSE LET k == (Len(data) - 1) * p
             f == int(k)
             c == f + 1
         IN  IF InList(data, f) /\ InList(data, c)
             THEN PercentileResult(NoExc,
                      100 * Item(data, f) + (k - 100 * f) * (Item(data, c) - Item(data, f)),
                      f, c)
             ELSE PercentileResult("IndexError", 0, f, c)

\* percentile(data, p) of get_performance_metrics.
percentile(data, p) ==
    IF data = <<>> THEN PercentileResult(NoExc, 0, 0, 0)
    ELSE LET k == (Len(data) - 1) * p
             f == int(k)
             c == IF f < Len(data) - 1 THEN f + 1 ELSE f
         IN  IF InList(data, f) /\ InList(data, c)
             THEN PercentileResult(NoExc,
                      100 * Item(data, f) + (k - 100 * f) * (Item(data, c) - Item(data, f)),
                      f, c)
             ELSE PercentileResult("IndexError", 0, f, c)

\* Bound on the length of the lists percentile is applied to.
MaxData == 5

\* The execution times of the lists.
ExecTimes == {10, 20, 30, 40, 50}

\* "ORDER BY execution_time_ms": the lists are ascending.
Ascending(data) == \A i \in 1..(Len(data) - 1) : data[i] <= data[i + 1]

SortedTimes ==
    {data \in UNION {[1..n -> ExecTimes] : n \in 0..MaxData} : Ascending(data)}

\* The percentages.
Percents == 0..100

\* A percentile call has been entered with a list and a percentage.
HistPercentileInit ==
    /\ qrec = <<>>
    /\ history = <<>>
    /\ favorites = <<>>
    /\ log = <<>>
    /\ nquery = 0
    /\ seen = {}
    /\ hcfg = [max_history_per_session |-> MaxHistoryPerSession,
               max_favorites |-> MaxFavorites,
               history_retention_hours |-> HistoryRetention]
    /\ hlast \in {HistRead("percentile_call", None, [data |-> data, p |-> p], <<>>) :
                    data \in SortedTimes, p \in Percents}

\* The call returns.
percentile_return ==
    /\ hlast.op = "percentile_call"
    /\ HistReadReturn("percentile", None, hlast.args,
                      percentile(hlast.args.data, hlast.args.p))

PercentileNext == percentile_return

(***************************************************************************)
(* Claims about QueryHistoryManager                                         *)
(***************************************************************************)

\* The ids of the records held in the in-memory history lists.
CachedIds == UNION {Range(history[s]) : s \in DOMAIN history}

\* C8: every add_query call appends exactly one record to the durable log,
\* also when the duplicate check keeps the record out of the in-memory list:
\* the log grows by one row, the row of the record the call returned.
C8_AddAppendsToLog ==
    [][hlast'.op = "add_query" =>
          /\ Cardinality(DOMAIN log') = Cardinality(DOMAIN log) + 1
          /\ hlast'.ret \in DOMAIN log']_vars

\* C9: in every reachable state, every record held in the in-memory history
\* is also a row of the durable log.
C9_CacheWithinLog == CachedIds \subseteq DOMAIN log

\* A text without its leading and trailing whitespace: the part from its first
\* to its last non-whitespace character.
Trimmed(sql) ==
    LET solid == {i \in 1..Len(sql) : sql[i] \notin Whitespace}
    IN  IF solid = {} THEN <<>>
        ELSE SubSeq(sql, CHOOSE i \in solid : \A j \in solid : i <= j,
                         CHOOSE i \in solid : \A j \in solid : i >= j)

\* Upper-case letters and their lower-case forms.
CaseFold(c) == CASE c = "A" -> "a" [] OTHER -> c

\* Two SQL texts have the same normalized form (trimmed and lower-cased).
SameNormalizedSql(x, y) ==
    /\ Len(Trimmed(x)) = Len(Trimmed(y))
    /\ \A i \in 1..Len(Trimmed(x)) : CaseFold(Trimmed(x)[i]) = CaseFold(Trimmed(y)[i])

\* The positions of list l that hold a record with the normalized SQL of sql.
PositionsOf(l, sql) == {i \in 1..Len(l) : SameNormalizedSql(qrec[l[i]].sql, sql)}

NonFavoritePositions(l) == {i \in 1..Len(l) : ~qrec[l[i]].is_favorite}

\* C11: in every reachable state, whatever adds, favorite, unfavorite, delete
\* and clear calls led to it, no session's in-memory list holds more than
\* max_history_per_session records that are not flagged is_favorite.
C11_NonFavoriteBound ==
    \A s \in DOMAIN history :
        Cardinality(NonFavoritePositions(history[s])) <= hcfg.max_history_per_session

\* An add has just put a record into a list that now holds exactly
\* max_history_per_session non-favorite records, more records having been
\* created than the list may hold.
C11_Witness ==
    /\ hlast.op = "add_query"
    /\ hlast.inserted
    /\ nquery > hcfg.max_history_per_session
    /\ Cardinality(NonFavoritePositions(history[hlast.session_id]))
          = hcfg.max_history_per_session

\* C12: when an add makes a session's list longer than max_history_per_session,
\* exactly one entry is removed from it, the oldest one not flagged is_favorite
\* (otherwise none is removed); and no entry flagged is_favorite leaves its list
\* in an add, a clear_history or a cleanup_old_history.
C12_EvictOldestNonFavorite ==
    [][/\ (hlast'.op = "add_query" /\ hlast'.inserted) =>
            LET sid == hlast'.session_id
                old == HistoryOf(history, sid)
                app == Append(old, hlast'.ret)
                plain == {i \in 1..Len(app) : i = Len(app) \/ ~qrec[old[i]].is_favorite}
                new == history'[sid]
            IN  IF Len(app) > hcfg.max_history_per_session
                THEN \E k \in plain :
                        /\ \A j \in plain : k <= j
                        /\ Len(new) = Len(app) - 1
                        /\ \A i \in 1..Len(new) : new[i] = IF i < k THEN app[i] ELSE app[i + 1]
                ELSE new = app
       /\ hlast'.op \in {"add_query", "clear_history", "cleanup_old_history"} =>
            \A s \in DOMAIN history : \A i \in 1..Len(history[s]) :
                qrec[history[s][i]].is_favorite =>
                    /\ s \in DOMAIN history'
                    /\ history[s][i] \in Range(history'[s])
                    /\ qrec'[history[s][i]] = qrec[history[s][i]]]_vars

\* An add to a full list has just evicted a record younger than the favorite
\* at the head of the list, and the favorite is older than the retention period.
C12_Witness ==
    /\ hlast.op = "add_query"
    /\ hlast.inserted
    /\ LET l == history[hlast.session_id]
       IN  /\ Len(l) = hcfg.max_history_per_session
           /\ qrec[l[1]].is_favorite
           /\ l[Len(l)] = hlast.ret
           /\ \E id \in 1..nquery : l[1] < id /\ id < l[Len(l)] /\ id \notin DOMAIN qrec
           /\ qrec[l[1]].created_at <= now - hcfg.history_retention_hours

\* C13: in every reachable state the favorites dict holds at most max_favorites
\* entries, whether add_to_favorites marked existing records or created new ones.
C13_FavoritesBound == Len(favorites) <= hcfg.max_favorites

\* created_at of the record with this id, as an add_to_favorites step sees it:
\* the record it creates is stamped with the current clock.
CreatedAt(id) == IF id \in DOMAIN qrec THEN qrec[id].created_at ELSE now

\* C14: whenever add_to_favorites adds a favorite and the count would pass
\* max_favorites, exactly one favorite is evicted, and no favorite is older
\* (smaller created_at) than the evicted one.
C14_EvictOldestFavorite ==
    [][(/\ hlast'.op = "add_to_favorites"
        /\ hlast'.ret # UnknownQueryId
        /\ hlast'.ret \notin Range(favorites)
        /\ Len(favorites) + 1 > hcfg.max_favorites) =>
            LET all == Append(favorites, hlast'.ret)
            IN  \E e \in Range(all) :
                    /\ favorites' = FavDel(all, e)
                    /\ \A id \in Range(all) : CreatedAt(e) <= CreatedAt(id)]_vars

\* C15: add_to_favorites called without a query_id and without both a question
\* and an sql text (none of them, or only one) returns null, creates no record
\* and leaves the history lists, the favorites and the log as they were.
C15_NothingToAdd ==
    [][(/\ hlast'.op = "add_to_favorites"
        /\ hlast'.query_id = UnknownQueryId
        /\ (hlast'.question = None \/ hlast'.sql = <<>>)) =>
            /\ hlast'.ret = UnknownQueryId
            /\ UNCHANGED <<qrec, history, favorites, log, nquery>>]_vars

\* add_to_favorites has just returned from a call with a question but no sql
\* and no query_id, on a manager that holds records.
C15_Witness ==
    /\ hlast.op = "add_to_favorites"
    /\ hlast.query_id = UnknownQueryId
    /\ hlast.question \in Questions
    /\ hlast.sql = <<>>
    /\ hlast.ret = UnknownQueryId
    /\ history # <<>>
    /\ favorites # <<>>

\* C16: add_to_favorites given a query_id that no record held by the manager
\* has returns null and creates or flags nothing, whatever the other arguments.
C16_UnknownIdFails ==
    [][(/\ hlast'.op = "add_to_favorites"
        /\ hlast'.query_id # UnknownQueryId
        /\ hlast'.query_id \notin DOMAIN qrec) =>
            /\ hlast'.ret = UnknownQueryId
            /\ UNCHANGED <<qrec, history, favorites, log, nquery>>]_vars

\* A record counts as a favorite when it is in the favorites dict or held with
\* its is_favorite flag set.
IsFavorite(query_id) ==
    \/ query_id \in Range(favorites)
    \/ query_id \in DOMAIN qrec /\ qrec[query_id].is_favorite

\* C17: remove_from_favorites returns true, and leaves the record unflagged and
\* out of the favorites, exactly when the record is a favorite at the call; in
\* every other case (unknown id, record that is not a favorite) it returns false
\* and changes nothing.
C17_RemoveOnlyFavorites ==
    [][hlast'.op = "remove_from_favorites" =>
         LET q == hlast'.query_id
         IN  IF IsFavorite(q)
             THEN /\ hlast'.ret = TRUE
                  /\ q \notin Range(favorites')
                  /\ q \in DOMAIN qrec' => ~qrec'[q].is_favorite
             ELSE /\ hlast'.ret = FALSE
                  /\ UNCHANGED <<qrec, history, favorites, log>>]_vars

\* C18: delete_query returns true exactly when a record with the id was held
\* (in a history list, in the favorites or in the log), and then none of them
\* holds it afterwards; it returns false when no record has the id, also when
\* session_id names an existing session.
C18_DeleteReportsFound ==
    [][hlast'.op = "delete_query" =>
         LET q == hlast'.query_id
             existed == q \in Range(favorites) \cup CachedIds \cup DOMAIN log
         IN  /\ hlast'.ret = existed
             /\ existed => /\ q \notin Range(favorites')
                            /\ \A s \in DOMAIN history' : q \notin Range(history'[s])
                            /\ q \notin DOMAIN log']_vars

\* C19: clear_history(session_id) removes from the session's list every record
\* whose is_favorite flag is not set and keeps, in order and unchanged, every
\* record whose flag is set; the other sessions' lists and the favorites stay as
\* they were; the value returned is the number of records removed, 0 for a
\* session the manager does not know.
C19_ClearHistory ==
    [][hlast'.op = "clear_history" =>
         LET s == hlast'.session_id
         IN  IF s \notin DOMAIN history
             THEN /\ hlast'.ret = 0
                  /\ UNCHANGED <<qrec, history, favorites, log>>
             ELSE LET kept == {i \in 1..Len(history[s]) : qrec[history[s][i]].is_favorite}
                  IN  /\ DOMAIN history' = DOMAIN history
                      /\ \A t \in DOMAIN history \ {s} : history'[t] = history[t]
                      /\ Len(history'[s]) = Cardinality(kept)
                      /\ \A i \in kept :
                            /\ history'[s][Cardinality({j \in kept : j <= i})] = history[s][i]
                            /\ qrec'[history[s][i]] = qrec[history[s][i]]
                      /\ \A t \in DOMAIN history \ {s} : \A i \in 1..Len(history[t]) :
                            qrec'[history[t][i]] = qrec[history[t][i]]
                      /\ hlast'.ret = Len(history[s]) - Cardinality(kept)
                      /\ UNCHANGED <<favorites, log>>]_vars

\* clear_history has just removed records from a session that keeps a
\* favorite, while another session holds records.
C19_Witness ==
    /\ hlast.op = "clear_history"
    /\ hlast.ret > 0
    /\ hlast.session_id \in DOMAIN history
    /\ history[hlast.session_id] # <<>>
    /\ \E t \in DOMAIN history : t # hlast.session_id /\ history[t] # <<>>

\* C20: get_or_create_session called with the id of a session that is in the
\* dict and not expired returns that id, and the session's last_activity is the
\* current time when the call returns.
C20_GetOrCreateTouches ==
    [][(/\ clast'.op = "get_or_create"
        /\ clast'.exc = NoExc
        /\ InConvDict(clast'.arg)
        /\ ~conv_is_expired(cobj[clast'.arg], ConvTimeout)) =>
            /\ clast'.ret = clast'.arg
            /\ clast'.arg \in Range(ckeys')
            /\ cobj'[clast'.arg].last_activity = now]_vars

\* C21: get_or_create_session returns the id it was given only when that id's
\* session is in the dict and has not been idle longer than the timeout; in
\* every other case (expired session, no id) it returns an id that was not in
\* the dict, bound to a session with no messages, and the given id is no longer
\* in the dict.
C21_ExpiredGetsNewId ==
    [][clast'.op = "get_or_create" =>
         LET given == clast'.arg
             ret == clast'.ret
         IN  /\ clast'.exc = NoExc
             /\ ret \in Range(ckeys')
             /\ ret = given =>
                    /\ given \in Range(ckeys)
                    /\ now - cobj[given].last_activity <= ConvTimeout
             /\ ret # given =>
                    /\ ret \notin Range(ckeys)
                    /\ given \notin Range(ckeys')
                    /\ cobj'[ret].messages = <<>>
                    /\ cobj'[ret].session_id = ret]_vars

\* get_or_create_session has just answered a given id, one that held messages
\* and is gone from the dict, with a new id.
C21_Witness ==
    /\ clast.op = "get_or_create"
    /\ clast.arg \in cissued
    /\ clast.ret # clast.arg
    /\ clast.arg \notin Range(ckeys)
    /\ clast.ret \in Range(ckeys)
    /\ nmsg > 0
    /\ now > ConvTimeout

\* C22: when add_message(session_id, role, content) returns, the dict holds a
\* session under session_id, created if it was missing, whose message list ends
\* with the message just given and whose last_activity is the current time.
C22_AppendReadsBack ==
    [][\A t \in ConvThreads :
         (cpc[t] = "append" /\ cpc'[t] = "idle") =>
             LET id == cframe[t].arg
             IN  /\ clast'.exc = NoExc
                 /\ id \in Range(ckeys')
                 /\ cobj'[id].messages # <<>>
                 /\ cobj'[id].messages[Len(cobj'[id].messages)]
                        = ConversationMessage(cframe[t].role, cframe[t].content)
                 /\ cobj'[id].last_activity = now]_vars

\* C23: the context of a session with n messages, asked with window
\* max_messages, is the last min(max_messages, n) messages in append order as
\* role/content pairs, preceded by one system entry exactly when a system
\* prompt is given; it never holds more than max_messages conversation messages.
C23_ContextWindow ==
    [][clast'.op = "context_window" =>
         LET msgs == cobj[clast'.arg].messages
             n == Len(msgs)
             m == IF clast'.n < n THEN clast'.n ELSE n
             pre == IF clast'.ret = None THEN 0 ELSE 1
             ctx == clast'.ctx
         IN  /\ Len(ctx) = pre + m
             /\ pre = 1 => ctx[1].role = "system"
             /\ \A i \in 1..m :
                    /\ pre + i <= Len(ctx)
                    /\ ctx[pre + i].role = msgs[n - m + i].role
                    /\ ctx[pre + i].content = msgs[n - m + i].content]_vars

\* C24: no step of get_conversation_context changes the dict of sessions or a
\* stored session (its messages, its last_activity), whether the id given is
\* live, expired or unknown.
C24_ContextReadOnly ==
    [][\A t \in ConvThreads :
         (/\ cpc'[t] # cpc[t]
          /\ "context" \in {cframe[t].op, cframe'[t].op}) =>
             /\ ckeys' = ckeys
             /\ \A k \in Range(ckeys) : cobj'[k] = cobj[k]]_vars

\* C25: clear_session(id) raises nothing; for an id in the dict it leaves the
\* session under the same id with the same created_at, an empty message list
\* and last_activity equal to the current time, and leaves every other session
\* as it was; for an id not in the dict it changes nothing.
C25_ClearKeepsIdentity ==
    [][clast'.op = "clear" =>
         LET id == clast'.arg
         IN  /\ clast'.exc = NoExc
             /\ ckeys' = ckeys
             /\ \A k \in Range(ckeys) \ {id} : cobj'[k] = cobj[k]
             /\ id \in Range(ckeys) =>
                    /\ cobj'[id].messages = <<>>
                    /\ cobj'[id].session_id = cobj[id].session_id
                    /\ cobj'[id].created_at = cobj[id].created_at
                    /\ cobj'[id].last_activity = now]_vars

\* clear_session has just emptied the only session there ever was, which had
\* been given messages and was created before the current time.
C25_Witness ==
    /\ clast.op = "clear"
    /\ clast.ret = clast.arg
    /\ cissued = {clast.arg}
    /\ ckeys = <<clast.arg>>
    /\ nmsg > 0
    /\ lost = {}
    /\ cobj[clast.arg].messages = <<>>
    /\ cobj[clast.arg].created_at < now
    /\ cobj[clast.arg].last_activity = now

\* The text hay holds the text needle, letter case aside.
HoldsText(hay, needle) ==
    \E start \in 1..(Len(hay) - Len(needle) + 1) :
        \A j \in 1..Len(needle) : CaseFold(hay[start + j - 1]) = CaseFold(needle[j])

\* C26: get_history(session_id, limit, offset, search, tables_filter) returns
\* records of that session only; among the session's records that pass the
\* search and tables filters, ranked from the most recent created_at down
\* (records of equal created_at in list order), it returns, in rank order,
\* exactly those of ranks offset .. offset + limit - 1.
C26_HistoryPage ==
    [][hlast'.op = "get_history" =>
         LET a == hlast'.args
             ret == hlast'.ret
             l == HistoryOf(history, hlast'.session_id)
             Passes(i) ==
                 /\ a.search # <<>> =>
                        \/ HoldsText(QuestionChars(qrec[l[i]].question), a.search)
                        \/ HoldsText(qrec[l[i]].sql, a.search)
                 /\ a.tables_filter # <<>> =>
                        \E t \in Range(a.tables_filter) : t \in Range(qrec[l[i]].tables)
             F == {i \in 1..Len(l) : Passes(i)}
             Before(i, j) ==
                 \/ qrec[l[i]].created_at > qrec[l[j]].created_at
                 \/ qrec[l[i]].created_at = qrec[l[j]].created_at /\ i < j
             rank(i) == Cardinality({j \in F : Before(j, i)})
             page == {i \in F : a.offset <= rank(i) /\ rank(i) < a.offset + a.limit}
         IN  /\ Len(ret) = Cardinality(page)
             /\ \A k \in 1..Len(ret) : ret[k].session_id = hlast'.session_id
             /\ \A i \in page :
                    LET k == rank(i) - a.offset + 1
                    IN  /\ k \in 1..Len(ret)
                        /\ ret[k].id = l[i]
                        /\ ret[k].sql = qrec[l[i]].sql
                        /\ ret[k].question = qrec[l[i]].question
                        /\ ret[k].tables = qrec[l[i]].tables
                        /\ ret[k].created_at = isoformat(qrec[l[i]].created_at)
             /\ UNCHANGED <<qrec, history, favorites, log>>]_vars

\* get_history has just returned a one-record first page under a tables filter
\* that the session's most recent record does not pass.
C26_Witness ==
    /\ hlast.op = "get_history"
    /\ hlast.args.tables_filter # <<>>
    /\ hlast.args.offset = 0
    /\ hlast.args.limit = 1
    /\ Len(hlast.ret) = 1
    /\ \E i \in 1..Len(history[hlast.session_id]) :
          LET r == qrec[history[hlast.session_id][i]]
          IN  /\ isoformat(r.created_at)[2] > hlast.ret[1].created_at[2]
              /\ Range(hlast.args.tables_filter) \cap Range(r.tables) = {}

\* C27: after every add_query call, also one whose SQL duplicates a recent
\* entry, get_history for the same session with no filters and a limit that
\* covers the whole list holds a record with the session id, the question, the
\* sql and the tables that were passed to the call.
C27_AddThenGet ==
    [][hlast'.op = "add_query" =>
         LET got == get_history(history', qrec', hlast'.session_id, MaxQueries, 0, <<>>, <<>>)
         IN  \E k \in 1..Len(got) :
                 /\ got[k].session_id = hlast'.session_id
                 /\ got[k].question = hlast'.question
                 /\ got[k].sql = hlast'.sql
                 /\ got[k].tables = TablesOf(hlast'.sql)]_vars

\* C28: get_suggested_queries(session_id, current_tables, limit) returns at
\* most limit entries and no record id twice; its favorite entries are records
\* of the favorites that share a table with current_tables, its history entries
\* are records of the session's list that share a table with current_tables
\* and are not flagged is_favorite; every favorite entry comes before every
\* history entry, a history entry appears only when all matching favorites do,
\* the history entries run from the most recent down, and nothing that matches
\* is missing unless the limit cut it off.
C28_SuggestionOrder ==
    [][hlast'.op = "get_suggested_queries" =>
         LET a == hlast'.args
             ret == hlast'.ret
             l == HistoryOf(history, hlast'.session_id)
             Shares(id) == \E t \in Range(a.current_tables) : t \in Range(qrec[id].tables)
             favs == {id \in Range(favorites) : Shares(id)}
             hist == {id \in Range(l) : Shares(id) /\ ~qrec[id].is_favorite}
             at(id) == CHOOSE i \in 1..Len(l) : l[i] = id
             ids(source) == {ret[i].query.id : i \in {j \in 1..Len(ret) : ret[j].source = source}}
         IN  /\ Len(ret) <= a.limit
             /\ \A i, j \in 1..Len(ret) : i < j => ret[i].query.id # ret[j].query.id
             /\ \A i \in 1..Len(ret) : ret[i].source \in {"favorite", "history"}
             /\ ids("favorite") \subseteq favs
             /\ ids("history") \subseteq hist
             /\ \A i, j \in 1..Len(ret) :
                    (ret[i].source = "favorite" /\ ret[j].source = "history") => i < j
             /\ ids("history") # {} => ids("favorite") = favs
             /\ \A i, j \in 1..Len(ret) :
                    (i < j /\ ret[i].source = "history" /\ ret[j].source = "history") =>
                        /\ at(ret[i].query.id) > at(ret[j].query.id)
                        /\ qrec[ret[i].query.id].created_at >= qrec[ret[j].query.id].created_at
             /\ Len(ret) < a.limit => (ids("favorite") = favs /\ ids("history") = hist)
             /\ \A i \in 1..Len(ret) : ret[i].query = to_dict(qrec[ret[i].query.id])
             /\ UNCHANGED <<qrec, history, favorites, log>>]_vars

\* get_suggested_queries has just returned a favorite followed by a history
\* record, for a session whose list holds the favorite too.
C28_Witness ==
    /\ hlast.op = "get_suggested_queries"
    /\ Len(hlast.ret) = 2
    /\ hlast.ret[1].source = "favorite"
    /\ hlast.ret[2].source = "history"
    /\ hlast.session_id \in DOMAIN history
    /\ hlast.ret[1].query.id \in Range(history[hlast.session_id])
    /\ hlast.ret[2].query.id \in Range(history[hlast.session_id])

\* C29: get_recent_tables(session_id, limit) returns, for every limit >= 0, at
\* most limit names and no name twice; the names are the distinct table names
\* of the 10 most recent records of the session, in the order in which they
\* are first met going from the most recent record back.
C29_RecentTables ==
    [][hlast'.op = "get_recent_tables" =>
         LET ret == hlast'.ret
             recent == Slice(sort_created_desc(HistoryOf(history, hlast'.session_id), qrec),
                             0, RecentScan)
             flat == Flatten([i \in 1..Len(recent) |-> qrec[recent[i]].tables])
             first(t) == CHOOSE i \in 1..Len(flat) : flat[i] = t /\ \A j \in 1..(i - 1) : flat[j] # t
         IN  /\ Len(ret) <= hlast'.args.limit
             /\ \A i, j \in 1..Len(ret) : i < j => ret[i] # ret[j]
             /\ Range(ret) \subseteq Range(flat)
             /\ \A i, j \in 1..Len(ret) : i < j => first(ret[i]) < first(ret[j])
             /\ \A t \in Range(flat) :
                    t \in Range(ret) \/ Len(ret) = hlast'.args.limit]_vars

\* The cleanup task has been stopped: it was started and _running is cleared.
CleanupStopped == ~running /\ loop # "unstarted"

\* C30: once stop_cleanup_task has been called (the task is not started
\* again), the cleanup loop eventually terminates; and from the moment the
\* loop has read the cleared flag it makes no sweep: it is at its loop test or
\* has left the loop.
C30_SweepStoppable ==
    /\ CleanupStopped ~> (loop = "exited")
    /\ [](observed => loop \in {"while", "exited"})
    /\ [][observed => ~(loop = "call" /\ loop' # "call")]_vars
    /\ [][loop = "exited" => loop' = "exited"]_vars

\* The cleanup thread has swept expired sessions away, has then read the
\* cleared flag and has left its loop.
C30_Witness ==
    /\ loop = "exited"
    /\ observed
    /\ ~running
    /\ last.op = "cleanup"
    /\ last.thread = CleanupThread
    /\ last.n > 0

(***************************************************************************)
(* Claims about AnalyticsDB (specification LogSpec)                         *)
(***************************************************************************)

\* C31: a save_query call either commits the whole record and returns True
\* (one new row under the record's id, holding the record's values and the
\* defaults of the columns the record does not give; every other row as it
\* was), or returns False and leaves the table exactly as it was; a record
\* whose id is already stored, or that lacks a required value, is never
\* committed.
C31_SaveQueryAtomic ==
    [][hlast'.op = "save_query" =>
          LET d == hlast'.args
          IN  \/ /\ hlast'.ret = TRUE
                 /\ d.id \notin DOMAIN log
                 /\ DOMAIN log' = DOMAIN log \cup {d.id}
                 /\ \A i \in DOMAIN log : log'[i] = log[i]
                 /\ DOMAIN log'[d.id] = Columns
                 /\ \A c \in RequiredKeys : log'[d.id][c] = d[c]
                 /\ log'[d.id].created_at =
                        IF "created_at" \in DOMAIN d THEN d.created_at ELSE isoformat(now)
                 /\ log'[d.id].success = IF "success" \in DOMAIN d /\ ~d.success THEN 0 ELSE 1
                 /\ \A c \in NotNullColumns : log'[d.id][c] # None
              \/ /\ hlast'.ret = FALSE
                 /\ log' = log
                 /\ \/ ~(RequiredKeys \subseteq DOMAIN d)
                    \/ d.id \in DOMAIN log
                    \/ d.question = None]_vars

\* A record whose id is stored with other values has just been refused: the
\* stored row is the old one.
C31_Witness ==
    /\ hlast.op = "save_query"
    /\ hlast.ret = FALSE
    /\ RequiredKeys \subseteq DOMAIN hlast.args
    /\ hlast.args.id \in DOMAIN log
    /\ hlast.args.question # None
    /\ log[hlast.args.id] # QueryRow(hlast.args)
    /\ Cardinality(DOMAIN log) >= 2

\* C33: a summary over the last hours counts the rows whose created_at is
\* within the window: total_queries is their number, successful_queries the
\* number of the successful ones, success_rate is successful / total * 100 to
\* two decimals (80.00 for 8 successful of 10) and 0 when the window holds no
\* row; under a widget filter too, successful_queries + failed_queries =
\* total_queries.  success_rate is in hundredths.
C33_SuccessRate ==
    [][hlast'.op = "get_analytics_summary" =>
          LET r == hlast'.ret
              hours == hlast'.args.hours
              inwin == {i \in DOMAIN log : log[i].created_at[2] >= now - hours}
              total == Cardinality(inwin)
              successful == Cardinality({i \in inwin : log[i].success = 1})
              diff == r.success_rate * total - successful * 10000
          IN  /\ r.successful_queries + r.failed_queries = r.total_queries
              /\ r.total_queries = 0 => r.success_rate = 0
              /\ hlast'.args.widget_type = None =>
                    /\ r.total_queries = total
                    /\ r.successful_queries = successful
                    /\ 2 * diff <= total /\ -2 * diff <= total
                    /\ (total = 10 /\ successful = 8) => r.success_rate = 8000]_vars

\* A summary of a window holding ten rows, eight of them successful, has just
\* returned.
C33_Witness ==
    /\ hlast.op = "get_analytics_summary"
    /\ hlast.args.widget_type = None
    /\ hlast.ret.total_queries = 10
    /\ hlast.ret.successful_queries = 8
    /\ hlast.ret.failed_queries = 2
    /\ hlast.ret.success_rate = 8000

\* C32: on an ascending non-empty list of n values percentile(data, p), for p
\* in 0..100, raises nothing and returns data[f] + (k - f) * (data[c] -
\* data[f]) with k = (n - 1) * p / 100, f = floor(k) and c = min(f + 1, n - 1);
\* f and c are in 0..n-1, the result lies between data[0] and data[n-1], and
\* percentile([10, 20, 30, 40, 50], 50) = 30.  k and the result are in
\* hundredths.
C32_Percentile ==
    (hlast.op = "percentile" /\ hlast.args.data # <<>>) =>
        LET data == hlast.args.data
            p == hlast.args.p
            r == hlast.ret
            n == Len(data)
            k == (n - 1) * p
            f == k \div 100
            c == IF f + 1 < n - 1 THEN f + 1 ELSE n - 1
        IN  /\ r.exc = NoExc
            /\ r.f = f /\ r.c = c
            /\ f \in 0..(n - 1) /\ c \in 0..(n - 1)
            /\ r.value = 100 * data[f + 1] + (k - 100 * f) * (data[c + 1] - data[f + 1])
            /\ 100 * data[1] <= r.value /\ r.value <= 100 * data[n]
            /\ (data = <<10, 20, 30, 40, 50>> /\ p = 50) => r.value = 3000

\* The median of [10, 20, 30, 40, 50] has been returned: 30.
C32_Witness ==
    /\ hlast.op = "percentile"
    /\ hlast.args.data = <<10, 20, 30, 40, 50>>
    /\ hlast.args.p = 50
    /\ hlast.ret.exc = NoExc
    /\ hlast.ret.value = 3000

(***************************************************************************)
(* Further claims about QueryHistoryManager                                 *)
(***************************************************************************)

\* C35: add_to_favorites with question and sql and no query_id returns a new
\* record that is in the favorites and also in the history list of its
\* session, so that get_history of that session returns it with is_favorite
\* true.
C35_NewFavoriteInHistory ==
    [][(/\ hlast'.op = "add_to_favorites"
        /\ hlast'.query_id = UnknownQueryId
        /\ hlast'.ret # UnknownQueryId) =>
            LET id == hlast'.ret
                session_id == qrec'[id].session_id
            IN  /\ id \in Range(favorites')
                /\ id \notin DOMAIN qrec
                /\ session_id \in DOMAIN history'
                /\ id \in Range(history'[session_id])
                /\ \E d \in Range(get_history(history', qrec', session_id, MaxQueries, 0,
                                              <<>>, <<>>)) :
                      d.id = id /\ d.is_favorite]_vars

\* C36: in every reachable state no session's list, favorites included, is
\* longer than max_history_per_session, for every capacity from 0 on and
\* whatever add, add_to_favorites, remove_from_favorites, delete_query and
\* clear_history calls led to the state.
C36_TotalBound ==
    \A s \in DOMAIN history : Len(history[s]) <= hcfg.max_history_per_session

\* An add has just appended a record to a full list of favorites: the record
\* itself was popped again and the list is as long as it may be.
C36_Witness ==
    /\ hlast.op = "add_query"
    /\ hlast.inserted
    /\ hcfg.max_history_per_session > 0
    /\ Len(history[hlast.session_id]) = hcfg.max_history_per_session
    /\ \A id \in Range(history[hlast.session_id]) : qrec[id].is_favorite

\* C37: in every reachable state every record of the favorites dict has
\* is_favorite set, and every record of a history list that has is_favorite
\* set is in the favorites dict.
C37_FavoritesAgree ==
    /\ \A id \in Range(favorites) : qrec[id].is_favorite
    /\ \A s \in DOMAIN history : \A id \in Range(history[s]) :
          qrec[id].is_favorite => id \in Range(favorites)

\* C38: the record returned by an add whose hash matched none of the last five
\* records of the list is in the list when the add returns, whatever the list
\* held before.
C38_AddedRecordPresent ==
    [][(hlast'.op = "add_query" /\ hlast'.inserted) =>
          /\ hlast'.session_id \in DOMAIN history'
          /\ hlast'.ret \in Range(history'[hlast'.session_id])]_vars

(***************************************************************************)
(* Claims about concurrent add_query calls (specification WorkerSpec)       *)
(***************************************************************************)

\* C34: when the workers have returned from their add_query calls, every
\* record that was appended to a session's list (and not popped to keep the
\* list within its bound) is in that list, also when the session had no list
\* when the calls began, and no list is longer than max_history_per_session.
C34_ConcurrentAdds ==
    (\A w \in Workers : hpc[w] = "idle") =>
        /\ \A e \in landed : e[2] \in DOMAIN history /\ e[1] \in Range(history[e[2]])
        /\ \A s \in DOMAIN history : Len(history[s]) <= hcfg.max_history_per_session

(***************************************************************************)
(* Claims about restarts of the cleanup task (specification RestartSpec)    *)
(***************************************************************************)

\* The number of cleanup threads that are in their loop.
RunningLoops == (IF loop \in InLoop THEN 1 ELSE 0) + Len(earlier)

\* C39: after any sequence of start_cleanup_task and stop_cleanup_task calls
\* at most one cleanup loop is running for the SessionManager.
C39_OneCleanupLoop == RunningLoops <= 1

(***************************************************************************)
(* Claims about expired conversation sessions (specification ConvSeqSpec)   *)
(***************************************************************************)

\* C40: a session of the dict whose last_activity lies more than the timeout
\* back is never live again under its id: whatever operation runs next
\* (add_message, get_conversation_context, clear_session, get_session_history,
\* get_or_create_session, a sweep), the id is either removed from the dict or
\* keeps the last_activity it had.
C40_ExpiredStaysExpired ==
    [][\A sid \in Range(ckeys) :
          (/\ conv_is_expired(cobj[sid], ConvTimeout)
           /\ sid \in Range(ckeys')) =>
               cobj'[sid].last_activity = cobj[sid].last_activity]_vars

Init == SessionInit /\ ConvInit /\ HistInit /\ LoopInit /\ WorkerInit

Spec == Init /\ [][SessionNext]_vars

ConvSpec == Init /\ [][ConvNext]_vars

ConvSeqSpec == Init /\ [][ConvSeqNext]_vars

HistSpec == Init /\ [][HistNext]_vars

EditInit == SessionInit /\ ConvInit /\ HistEditInit /\ LoopInit /\ WorkerInit

HistEditSpec == EditInit /\ [][HistEditNext]_vars

HistCleanSpec == EditInit /\ [][HistCleanNext]_vars

HistPageSpec == EditInit /\ [][HistPageNext]_vars

LoopSpec == Init /\ [][LoopNext]_vars /\ LoopFairness

LogInit == SessionInit /\ ConvInit /\ HistLogInit /\ LoopInit /\ WorkerInit

LogSpec == LogInit /\ [][LogNext]_vars

PercentileInit == SessionInit /\ ConvInit /\ HistPercentileInit /\ LoopInit /\ WorkerInit

PercentileSpec == PercentileInit /\ [][PercentileNext]_vars

CapInit == SessionInit /\ ConvInit /\ HistCapInit /\ LoopInit /\ WorkerInit

HistCapSpec == CapInit /\ [][HistCapNext]_vars

RestartSpec == Init /\ [][RestartNext]_vars

WorkerSpec == EditInit /\ [][WorkerNext]_vars

HistSuggestSpec == EditInit /\ [][HistSuggestNext]_vars

====
